---- MODULE Spec2Model ----
(***************************************************************************)
(* stockticker: the expiring in-memory cache (internal/cache) and the      *)
(* stock service built on it (internal/service), which answers             *)
(* GetStockData from the cache or from the quote client.                   *)
(*                                                                         *)
(* Time is the reading of time.Now(), counted in minutes.  Strings that    *)
(* the code compares or parses (dates, close prices) are sequences of      *)
(* one-character strings; prices are counted in hundredths.                *)
(***************************************************************************)
EXTENDS Integers, Sequences, FiniteSets, TLC

\* ------------------------------------------------------------------ bounds
\* The clock is not advanced past MaxClock periods of five minutes.
MaxClock == 5

\* The amounts by which the clock advances between two steps.
ClockSteps == {5, 15}

\* ------------------------------------------------------- program constants
cacheDuration == 15

DefaultNDays == 7

DefaultSymbol == "IBM"

DefaultPort == "8080"

\* ------------------------------------------------------------ input pools
\* Keys, values and durations the cache's callers pass to it.
KeyPool == {DefaultSymbol, "AAPL"}

ValuePool == {"v1", "v2"}

TTLPool == {-5, 0, 5, 10}

\* The symbol the service is configured with (config.Symbol).
Symbol == DefaultSymbol

\* config.NDays as strconv.Atoi can deliver it.
NDaysPool == {-1, 0, 1, 2, DefaultNDays}

\* compactOutputSizeLimit of the client: day counts above it ask for "full"
compactOutputSizeLimit == 100

\* Day counts on both sides of the client's threshold.
SizeDaysPool == {-1, 0, DefaultNDays, 99, compactOutputSizeLimit, 101, 150}

\* The callers of GetStockData (one per inbound request being served): the
\* one that calls when requests come one after the other, and all of them.
Callers == {"c1"}

AllCallers == {"c1", "c2"}

\* The threads that call the cache's methods at the same time.
Threads == {"t1", "t2", "t3"}

\* Date keys and close fields an upstream payload can carry.
Date_2022_12_31 == <<"2", "0", "2", "2", "-", "1", "2", "-", "3", "1">>

Date_2023_01_02 == <<"2", "0", "2", "3", "-", "0", "1", "-", "0", "2">>

Date_2023_01_10 == <<"2", "0", "2", "3", "-", "0", "1", "-", "1", "0">>

DatePool == {Date_2022_12_31, Date_2023_01_02, Date_2023_01_10}

Close_150_10 == <<"1", "5", "0", ".", "1", "0">>

Close_145_50 == <<"1", "4", "5", ".", "5", "0">>

Close_invalid == <<"i", "n", "v", "a", "l", "i", "d">>

\* a close that strconv.ParseFloat takes for the float64 NaN
Close_NaN == <<"N", "a", "N">>

\* The float64 NaN among the prices, which are counted in hundredths: the
\* one value that is no number of hundredths.
NaN == -1

ClosePool == {Close_150_10, Close_145_50, Close_invalid}

\* The errors the quote client returns.
FetchErrorPool ==
    {"error making request to Alpha Vantage", "Alpha Vantage API error",
     "error decoding Alpha Vantage response", "no data returned from Alpha Vantage"}

\* The nil interface value / nil pointer.
Nil == "nil"

\* ------------------------------------------------------------------ state
VARIABLES
    now,      \* time.Now()
    items,    \* Cache.items: map[string]Item
    ret,      \* what the last call of a cache method returned, and when
    lastSet,  \* per key: the last Set not followed by a Set or Delete of the key
    nDays,    \* config.NDays
    pc,       \* per caller: where its GetStockData call stands
    data,     \* per caller: the stockData it is about to cache
    res,      \* per caller: what its call returned
    obs,      \* per caller: what its call has done so far
    lastFill, \* the last Set a GetStockData call made
    lastDone, \* how the GetStockData call that ended last has ended
    mu,       \* Cache.mu: the threads that hold it for writing and for reading
    thr,      \* per thread: the cache method it is in, and where
    boot,     \* the process: its environment, and what config.New made of it
    rsp       \* per request: its method and what was written to the ResponseWriter

cacheObs == <<ret, lastSet>>

svcVars == <<nDays, pc, data, res, obs, lastFill, lastDone>>

lockVars == <<mu, thr>>

srvVars == <<boot, rsp>>

vars == <<now, items, ret, lastSet, nDays, pc, data, res, obs, lastFill, lastDone, mu, thr, boot, rsp>>

\* ------------------------------------------------------------------ cache
\* An expiration that leaves the duration out.
ExpirationOf_NoDuration(nowv, duration) == nowv

\* An expiry that takes a negative duration for none.
ExpirationOf_Clamped(nowv, duration) == nowv + (IF duration < 0 THEN 0 ELSE duration)

\* time.Now().Add(duration).UnixNano()
ExpirationOf(nowv, duration) == nowv + duration

\* The expiry test of Get.
GetExpired(nowv, item) == nowv > item.Expiration

\* A sweep whose comparison is inverted.
CleanupExpired_Inverted(nowv, item) == nowv < item.Expiration

\* A sweep that also takes the entries that expire at this very instant.
CleanupExpired_OrEqual(nowv, item) == nowv >= item.Expiration

\* The expiry test of Cleanup.
CleanupExpired(nowv, item) == nowv > item.Expiration

\* A Set that gives way to an entry that has not expired.
Set_KeepLive(m, nowv, key, value, duration) ==
    [k \in (DOMAIN m) \cup {key} |->
        IF k \in DOMAIN m /\ (k # key \/ nowv <= m[k].Expiration) THEN m[k]
        ELSE [Value |-> value, Expiration |-> nowv + duration]]

\* A Set that keeps the entry a key already has.
Set_KeepExisting(m, nowv, key, value, duration) ==
    [k \in (DOMAIN m) \cup {key} |->
        IF k \in DOMAIN m THEN m[k]
        ELSE [Value |-> value, Expiration |-> nowv + duration]]

\* Cache.Set: the map after c.items[key] = Item{value, expiration}.
Set(m, nowv, key, value, duration) ==
    [k \in (DOMAIN m) \cup {key} |->
        IF k = key
        THEN [Value |-> value, Expiration |-> ExpirationOf(nowv, duration)]
        ELSE m[k]]

\* Cache.Get: the pair it returns.
Get(m, nowv, key) ==
    IF key \notin DOMAIN m THEN [value |-> Nil, found |-> FALSE]
    ELSE IF GetExpired(nowv, m[key]) THEN [value |-> Nil, found |-> FALSE]
    ELSE [value |-> m[key].Value, found |-> TRUE]

\* A Get that leaves an empty entry behind for a key it did not find.
ItemsAfterGet_InsertMissing(m, nowv, key) ==
    IF key \in DOMAIN m THEN m
    ELSE [k \in (DOMAIN m) \cup {key} |->
             IF k = key THEN [Value |-> Nil, Expiration |-> 0] ELSE m[k]]

\* A Get that renews the expiry of the entry it returns.
ItemsAfterGet_Refresh(m, nowv, key) ==
    IF key \in DOMAIN m /\ ~GetExpired(nowv, m[key])
    THEN [m EXCEPT ![key].Expiration = nowv + cacheDuration]
    ELSE m

\* A Get that drops the expired entry it comes across.
ItemsAfterGet_EvictExpired(m, nowv, key) ==
    IF key \in DOMAIN m /\ GetExpired(nowv, m[key])
    THEN [k \in (DOMAIN m) \ {key} |-> m[k]]
    ELSE m

\* Cache.Get: the map it leaves (it only reads).
ItemsAfterGet(m, nowv, key) == m

\* A Delete that removes every entry.
Delete_Clear(m, key) == [k \in {} |-> m[k]]

\* Cache.Delete: the map after delete(c.items, key).
Delete(m, key) == [k \in (DOMAIN m) \ {key} |-> m[k]]

\* Cache.Cleanup: the map after the sweep.
Cleanup(m, nowv) ==
    [k \in {j \in DOMAIN m : ~CleanupExpired(nowv, m[j])} |-> m[k]]

\* cache.New()
NewCache == [k \in {} |-> Nil]

NoSet == [set |-> FALSE, value |-> Nil, at |-> 0, ttl |-> 0, swept |-> FALSE]

\* the value a Set or Delete of key finds in the map
PriorValue(m, key) == IF key \in DOMAIN m THEN m[key].Value ELSE Nil

\* ---------------------------------------------------------------- strings
\* The byte value of a character (Go compares strings byte by byte).
Code(ch) ==
    CASE ch = "-" -> 45 [] ch = "." -> 46
      [] ch = "0" -> 48 [] ch = "1" -> 49 [] ch = "2" -> 50 [] ch = "3" -> 51
      [] ch = "4" -> 52 [] ch = "5" -> 53 [] ch = "6" -> 54 [] ch = "7" -> 55
      [] ch = "8" -> 56 [] ch = "9" -> 57
      [] ch = "N" -> 78
      [] ch = "a" -> 97 [] ch = "d" -> 100 [] ch = "i" -> 105
      [] ch = "l" -> 108 [] ch = "n" -> 110 [] ch = "v" -> 118

\* a < b on Go strings, as sort.StringSlice.Less compares them
StringLess(a, b) ==
    \E i \in 1..(Len(a) + 1) :
        /\ i <= Len(b) + 1
        /\ \A j \in 1..(i - 1) : a[j] = b[j]
        /\ \/ (i = Len(a) + 1 /\ i <= Len(b))
           \/ (i <= Len(a) /\ i <= Len(b) /\ Code(a[i]) < Code(b[i]))

IsDigit(ch) == Code(ch) >= 48 /\ Code(ch) <= 57

RECURSIVE Pow10(_)
Pow10(n) == IF n <= 0 THEN 1 ELSE 10 * Pow10(n - 1)

RECURSIVE DigitsValue(_)
DigitsValue(ds) ==
    IF ds = <<>> THEN 0
    ELSE 10 * DigitsValue(SubSeq(ds, 1, Len(ds) - 1)) + (Code(ds[Len(ds)]) - 48)

\* strconv.ParseFloat(s, 64) on the notations the pools contain, the plain
\* decimal digits[.digits] and "NaN": ok with the value in hundredths, ok
\* with NaN, or not ok.
ParseFloat(s) ==
    LET dots == {i \in 1..Len(s) : s[i] = "."}
        digits == SelectSeq(s, IsDigit)
        wellFormed == /\ \A i \in 1..Len(s) : IsDigit(s[i]) \/ s[i] = "."
                      /\ Cardinality(dots) <= 1
                      /\ Len(digits) >= 1
        fracLen == IF dots = {} THEN 0 ELSE Len(s) - (CHOOSE i \in dots : TRUE)
    IN  IF s = Close_NaN THEN [ok |-> TRUE, val |-> NaN]
        ELSE IF ~wellFormed THEN [ok |-> FALSE, val |-> 0]
        ELSE [ok |-> TRUE,
              val |-> (DigitsValue(digits) * Pow10(2 - fracLen)) \div Pow10(fracLen - 2)]

\* ------------------------------------------------------------ service data
\* models.AlphaVantageResponse.TimeSeries: map[string]DailyPrice
SeriesPool ==
    UNION {[S -> [Close : ClosePool]] : S \in SUBSET DatePool}

NoErr == [kind |-> "nil", msg |-> "", date |-> <<>>]

UpstreamErr(m) == [kind |-> "upstream", msg |-> m, date |-> <<>>]

\* What the quote provider can answer to the client's GET: no answer at all
\* (transport error or timeout), a status other than 200, a body that is no
\* JSON of the expected shape, or a payload with a (possibly empty or missing)
\* time series.
HttpPool ==
    {[transport |-> FALSE, status |-> 200, decodes |-> TRUE, ts |-> ts] : ts \in SeriesPool}
        \cup {[transport |-> TRUE, status |-> 0, decodes |-> FALSE, ts |-> <<>>],
              [transport |-> FALSE, status |-> 500, decodes |-> FALSE, ts |-> <<>>],
              [transport |-> FALSE, status |-> 200, decodes |-> FALSE, ts |-> <<>>]}

\* A client that hands on whatever it has decoded, a payload without a time
\* series included.
ClientGetStockData_PassEmpty(http) ==
    IF http.transport
    THEN [err |-> UpstreamErr("error making request to Alpha Vantage"), ts |-> <<>>]
    ELSE IF http.status # 200
    THEN [err |-> UpstreamErr("Alpha Vantage API error"), ts |-> <<>>]
    ELSE IF ~http.decodes
    THEN [err |-> UpstreamErr("error decoding Alpha Vantage response"), ts |-> <<>>]
    ELSE [err |-> NoErr, ts |-> http.ts]

\* AlphaVantage.GetStockData once the provider has answered: (response, nil)
\* or (nil, err)
ClientGetStockData(http) ==
    IF http.transport
    THEN [err |-> UpstreamErr("error making request to Alpha Vantage"), ts |-> <<>>]
    ELSE IF http.status # 200
    THEN [err |-> UpstreamErr("Alpha Vantage API error"), ts |-> <<>>]
    ELSE IF ~http.decodes
    THEN [err |-> UpstreamErr("error decoding Alpha Vantage response"), ts |-> <<>>]
    ELSE IF Cardinality(DOMAIN http.ts) = 0
    THEN [err |-> UpstreamErr("no data returned from Alpha Vantage"), ts |-> <<>>]
    ELSE [err |-> NoErr, ts |-> http.ts]

\* What a quote fetcher may hand to the service by the signature of the call
\* alone, (*models.AlphaVantageResponse, error): any response, the one with
\* no dates included, or any error.
FetchOutcomes ==
    {[err |-> NoErr, ts |-> ts] : ts \in SeriesPool}
        \cup {[err |-> UpstreamErr(m), ts |-> <<>>] : m \in FetchErrorPool}

\* a + b on float64: NaN if either is
FloatAdd(a, b) == IF a = NaN \/ b = NaN THEN NaN ELSE a + b

RECURSIVE Gcd(_, _)
Gcd(a, b) == IF b = 0 THEN a ELSE Gcd(b, a % b)

\* An average that is the total, never divided.
Average_Total(totalClose, n) ==
    IF n = 0 \/ totalClose = NaN THEN [num |-> 0, den |-> 0]
    ELSE [num |-> totalClose, den |-> 1]

\* totalClose / float64(len(prices)) as an exact fraction; 0/0 and NaN/n
\* are NaN, written 0/0
Average(totalClose, n) ==
    IF n = 0 \/ totalClose = NaN THEN [num |-> 0, den |-> 0]
    ELSE [num |-> totalClose \div Gcd(totalClose, n), den |-> n \div Gcd(totalClose, n)]

\* a nil *models.StockData
NoData == [Symbol |-> "", Prices |-> <<>>, Average |-> [num |-> 0, den |-> 0]]

\* ------------------------------------------------------ processAPIResponse
\* A sort without the Reverse.
RECURSIVE SortDescending_Ascending(_)
SortDescending_Ascending(S) ==
    IF S = {} THEN <<>>
    ELSE LET m == CHOOSE x \in S : \A y \in S \ {x} : StringLess(x, y)
         IN  <<m>> \o SortDescending_Ascending(S \ {m})

\* sort.Sort(sort.Reverse(sort.StringSlice(dates))) over the keys of the map
RECURSIVE SortDescending(_)
SortDescending(S) ==
    IF S = {} THEN <<>>
    ELSE LET m == CHOOSE x \in S : \A y \in S \ {x} : StringLess(y, x)
         IN  <<m>> \o SortDescending(S \ {m})

\* A truncation that keeps one date too many.
Truncate_KeepOneMore(dates, n) ==
    IF Len(dates) > n + 1
    THEN IF n + 1 < 0 THEN [panic |-> TRUE, dates |-> <<>>]
         ELSE [panic |-> FALSE, dates |-> SubSeq(dates, 1, n + 1)]
    ELSE [panic |-> FALSE, dates |-> dates]

\* if len(dates) > NDays { dates = dates[:NDays] }; a negative bound panics
Truncate(dates, n) ==
    IF Len(dates) > n
    THEN IF n < 0 THEN [panic |-> TRUE, dates |-> <<>>]
         ELSE [panic |-> FALSE, dates |-> SubSeq(dates, 1, n)]
    ELSE [panic |-> FALSE, dates |-> dates]

\* A loop that skips a close that does not parse and goes on.
RECURSIVE ProcessDates_SkipBad(_, _, _, _)
ProcessDates_SkipBad(ts, dates, prices, totalClose) ==
    IF dates = <<>>
    THEN [err |-> NoErr, prices |-> prices, totalClose |-> totalClose]
    ELSE LET date == Head(dates)
             closePrice == ParseFloat(ts[date].Close)
         IN  IF ~closePrice.ok
             THEN ProcessDates_SkipBad(ts, Tail(dates), prices, totalClose)
             ELSE ProcessDates_SkipBad(ts, Tail(dates),
                               Append(prices, [Date |-> date, Close |-> closePrice.val]),
                               FloatAdd(totalClose, closePrice.val))

\* A loop that parses every retained close and reports the failure it met
\* last.
RECURSIVE ProcessDates_ReportLast(_, _, _, _)
ProcessDates_ReportLast(ts, dates, prices, totalClose) ==
    IF dates = <<>>
    THEN [err |-> NoErr, prices |-> prices, totalClose |-> totalClose]
    ELSE LET date == Head(dates)
             closePrice == ParseFloat(ts[date].Close)
             rest == ProcessDates_ReportLast(ts, Tail(dates), prices, totalClose)
         IN  IF ~closePrice.ok
             THEN IF rest.err # NoErr THEN rest
                  ELSE [err |-> [kind |-> "parse",
                                 msg |-> "error parsing close price for date",
                                 date |-> date],
                        prices |-> prices, totalClose |-> totalClose]
             ELSE ProcessDates_ReportLast(ts, Tail(dates),
                               Append(prices, [Date |-> date, Close |-> closePrice.val]),
                               FloatAdd(totalClose, closePrice.val))

\* the loop over the retained dates: it returns at the first close that
\* does not parse
RECURSIVE ProcessDates(_, _, _, _)
ProcessDates(ts, dates, prices, totalClose) ==
    IF dates = <<>>
    THEN [err |-> NoErr, prices |-> prices, totalClose |-> totalClose]
    ELSE LET date == Head(dates)
             closePrice == ParseFloat(ts[date].Close)
         IN  IF ~closePrice.ok
             THEN [err |-> [kind |-> "parse", msg |-> "error parsing close price for date",
                            date |-> date],
                   prices |-> prices, totalClose |-> totalClose]
             ELSE ProcessDates(ts, Tail(dates),
                               Append(prices, [Date |-> date, Close |-> closePrice.val]),
                               FloatAdd(totalClose, closePrice.val))

\* A transform without the check for an empty result.
NoPrices_Never(prices) == FALSE

\* if len(prices) == 0
NoPrices(prices) == Len(prices) = 0

\* StockService.processAPIResponse: "ok" with the StockData, "err" with the
\* error, or "panic"
processAPIResponse(ts, n, symbol) ==
    LET cut == Truncate(SortDescending(DOMAIN ts), n)
        loop == ProcessDates(ts, cut.dates, <<>>, 0)
    IN  IF cut.panic THEN [status |-> "panic", data |-> NoData, err |-> NoErr]
        ELSE IF loop.err # NoErr THEN [status |-> "err", data |-> NoData, err |-> loop.err]
        ELSE IF NoPrices(loop.prices)
        THEN [status |-> "err", data |-> NoData,
              err |-> [kind |-> "nodata", msg |-> "no price data available for symbol",
                       date |-> <<>>]]
        ELSE [status |-> "ok",
              data |-> [Symbol |-> symbol, Prices |-> loop.prices,
                        Average |-> Average(loop.totalClose, Len(loop.prices))],
              err |-> NoErr]

\* ------------------------------------------------------------------- lock
\* sync.RWMutex, unlocked: nobody holds it for writing or for reading
NoLock == [writer |-> {}, readers |-> {}]

\* a thread that is in no method of the cache
NoCall == [at |-> "idle", op |-> "none", key |-> Nil, value |-> Nil, ttl |-> 0]

\* ------------------------------------------------------------ GetStockData
\* the entry of the map under key, if any
EntryOf(m, key) ==
    IF key \in DOMAIN m
    THEN [present |-> TRUE, Value |-> m[key].Value, Expiration |-> m[key].Expiration]
    ELSE [present |-> FALSE, Value |-> NoData, Expiration |-> 0]

NoRes == [status |-> "none", data |-> NoData, err |-> NoErr]

NoFill == [filled |-> FALSE, data |-> NoData, at |-> 0, mixed |-> FALSE]

\* A client that asks for the full output from the threshold on.
OutputSize_FromLimit(days) == IF days >= compactOutputSizeLimit THEN "full" ELSE "compact"

\* the outputsize parameter the client adds to the query
OutputSize(days) == IF days > compactOutputSizeLimit THEN "full" ELSE "compact"

\* the query of AlphaVantage.GetStockData(symbol, days)
ClientRequest(symbol, days) ==
    [symbol |-> symbol, days |-> days, outputsize |-> OutputSize(days)]

\* the arguments a fetcher gets of which only the signature is known
FetcherRequest(symbol, days) == [symbol |-> symbol, days |-> days, outputsize |-> "none"]

NoReq == [symbol |-> "", days |-> 0, outputsize |-> "none"]

NoObs ==
    [hit |-> FALSE, at |-> 0, seen |-> EntryOf(NewCache, Symbol),
     after |-> EntryOf(NewCache, Symbol), fetches |-> 0, sets |-> 0,
     out |-> [err |-> NoErr, ts |-> <<>>], prev |-> NoFill, prevDone |-> "none",
     req |-> NoReq]

\* A return that wraps the client's error in one of its own.
FetchFailed_Wrapped(err) ==
    [status |-> "err", data |-> NoData,
     err |-> [kind |-> "upstream", msg |-> "error getting stock data", date |-> <<>>]]

\* A failure that is swallowed: the call goes on to store what it has.
FetchFailed_Swallowed(err) == [status |-> "ok", data |-> NoData, err |-> NoErr]

\* if err != nil { return nil, err } after the client call
FetchFailed(err) == [status |-> "err", data |-> NoData, err |-> err]

\* A call that goes on with an empty series when the response cannot be
\* processed.
AfterFetch_KeepPartial(out, n, symbol) ==
    IF out.err # NoErr THEN FetchFailed(out.err)
    ELSE IF processAPIResponse(out.ts, n, symbol).status = "err"
    THEN [status |-> "ok", data |-> NoData, err |-> NoErr]
    ELSE processAPIResponse(out.ts, n, symbol)

\* the client call and processAPIResponse: what the call has in hand after them
AfterFetch(out, n, symbol) ==
    IF out.err # NoErr THEN FetchFailed(out.err)
    ELSE processAPIResponse(out.ts, n, symbol)

\* the cache lookup: a hit returns the cached value
CheckCache(c) ==
    /\ pc[c] = "idle"
    /\ LET got == Get(items, now, Symbol) IN
        /\ items' = ItemsAfterGet(items, now, Symbol)
        /\ pc' = [pc EXCEPT ![c] = IF got.found THEN "done" ELSE "fetch"]
        /\ res' = [res EXCEPT ![c] =
               IF got.found THEN [status |-> "ok", data |-> got.value, err |-> NoErr]
               ELSE NoRes]
        /\ obs' = [obs EXCEPT ![c] =
               [NoObs EXCEPT !.hit = got.found, !.at = now,
                             !.seen = EntryOf(items, Symbol),
                             !.after = EntryOf(items', Symbol),
                             !.prev = lastFill,
                             !.prevDone = lastDone]]
        /\ lastDone' = IF got.found THEN "ok" ELSE lastDone
    /\ UNCHANGED <<now, cacheObs, nDays, data, lastFill, lockVars, srvVars>>

\* the client call has returned out and the response is processed, with r
\* as the outcome
FetchResult(c, out, req, r) ==
    /\ pc' = [pc EXCEPT ![c] =
           CASE r.status = "ok" -> "store"
             [] r.status = "err" -> "done"
             [] r.status = "panic" -> "panic"]
    /\ data' = [data EXCEPT ![c] = r.data]
    /\ res' = [res EXCEPT ![c] = IF r.status = "ok" THEN NoRes ELSE r]
    /\ obs' = [obs EXCEPT ![c].fetches = @ + 1, ![c].out = out, ![c].req = req]
    /\ lastDone' = IF r.status = "ok" THEN lastDone ELSE r.status
    /\ UNCHANGED <<now, items, cacheObs, nDays, lastFill, lockVars, srvVars>>

\* the client call has returned out; the response is processed
FetchReturns(c, out, req) == FetchResult(c, out, req, AfterFetch(out, nDays, Symbol))

\* the call of the quote client, as main wires it
Fetch(c) ==
    /\ pc[c] = "fetch"
    /\ \E http \in HttpPool :
           FetchReturns(c, ClientGetStockData(http), ClientRequest(Symbol, nDays))

\* the call of a quote fetcher of which only the signature is known
FetchAny(c) ==
    /\ pc[c] = "fetch"
    /\ \E out \in FetchOutcomes : FetchReturns(c, out, FetcherRequest(Symbol, nDays))

\* s.cache.Set(cacheKey, stockData, cacheDuration); return stockData, nil
Store(c) ==
    /\ pc[c] = "store"
    /\ items' = Set(items, now, Symbol, data[c], cacheDuration)
    /\ pc' = [pc EXCEPT ![c] = "done"]
    /\ res' = [res EXCEPT ![c] = [status |-> "ok", data |-> data[c], err |-> NoErr]]
    /\ obs' = [obs EXCEPT ![c].sets = @ + 1, ![c].after = EntryOf(items', Symbol)]
    /\ lastFill' = [filled |-> TRUE, data |-> data[c], at |-> now,
                    mixed |-> lastFill.mixed \/ (lastFill.filled /\ lastFill.data # data[c])]
    /\ lastDone' = "ok"
    /\ UNCHANGED <<now, cacheObs, nDays, data, lockVars, srvVars>>

\* the caller has its answer (or net/http has recovered the panic); the next
\* request comes in
Return(c) ==
    /\ pc[c] \in {"done", "panic"}
    /\ pc' = [pc EXCEPT ![c] = "idle"]
    /\ data' = [data EXCEPT ![c] = NoData]
    /\ res' = [res EXCEPT ![c] = NoRes]
    /\ obs' = [obs EXCEPT ![c] = NoObs]
    /\ UNCHANGED <<now, items, cacheObs, nDays, lastFill, lastDone, lockVars, srvVars>>

\* time passes
Tick ==
    /\ \E d \in ClockSteps : now + d <= 5 * MaxClock /\ now' = now + d
    /\ UNCHANGED <<items, cacheObs, svcVars, lockVars, srvVars>>

\* ---------------------------------------------------------- configuration
\* An environment variable: whether it is set, and its value (os.Getenv gives
\* the empty string for one that is not set).
Unset(empty) == [set |-> FALSE, val |-> empty]

SetTo(v) == [set |-> TRUE, val |-> v]

\* The values of the variables that hold a day count.
DaysTextPool == {<<>>, <<"3">>, <<"-", "1">>, <<"7", ".", "5">>, <<"n", "a">>}

\* The environments the process is started in: PORT, API_KEY and SYMBOL not
\* set, empty or set; N_DAYS, the variable config.New reads, and NDAYS, the
\* variable the README, the Makefile and the ConfigMap set.
EnvPool ==
    [PORT : {Unset(""), SetTo(""), SetTo("9090")},
     API_KEY : {Unset(""), SetTo(""), SetTo("key")},
     SYMBOL : {Unset(""), SetTo(""), SetTo("AAPL")},
     N_DAYS : {Unset(<<>>)} \cup {SetTo(t) : t \in DaysTextPool},
     NDAYS : {Unset(<<>>), SetTo(<<"2">>)}]

\* os.Getenv(key)
Getenv(e, key) == e[key].val

\* A lookup that falls back to the default only for a variable that is not set.
getEnvOrDefault_UnsetOnly(e, key, defaultValue) ==
    IF ~e[key].set THEN defaultValue ELSE Getenv(e, key)

\* getEnvOrDefault(key, defaultValue)
getEnvOrDefault(e, key, defaultValue) ==
    IF Len(Getenv(e, key)) = 0 THEN defaultValue ELSE Getenv(e, key)

\* strconv.Itoa(n)
RECURSIVE Itoa(_)
Itoa(n) ==
    LET digit(d) == CHOOSE ch \in {"0", "1", "2", "3", "4", "5", "6", "7", "8", "9"} :
                        Code(ch) = 48 + d
    IN  IF n < 0 THEN <<"-">> \o Itoa(-n)
        ELSE IF n < 10 THEN <<digit(n)>>
        ELSE Itoa(n \div 10) \o <<digit(n % 10)>>

\* strconv.Atoi(s) on the short texts of the pools (none is out of the range
\* of int): an optional sign and at least one digit, or an error
Atoi(s) ==
    LET signed == Len(s) > 0 /\ s[1] \in {"-", "+"}
        ds == IF signed THEN Tail(s) ELSE s
    IN  IF Len(ds) = 0 \/ \E i \in 1..Len(ds) : ~IsDigit(ds[i])
        THEN [ok |-> FALSE, val |-> 0]
        ELSE [ok |-> TRUE,
              val |-> IF signed /\ s[1] = "-" THEN -DigitsValue(ds) ELSE DigitsValue(ds)]

NoConfig == [Port |-> "", APIKey |-> "", Symbol |-> "", NDays |-> 0]

\* config.New(): (*Config, error)
New(e) ==
    LET port == getEnvOrDefault(e, "PORT", DefaultPort)
        apiKey == Getenv(e, "API_KEY")
        symbol == getEnvOrDefault(e, "SYMBOL", DefaultSymbol)
        nDaysStr == getEnvOrDefault(e, "N_DAYS", Itoa(DefaultNDays))
        nDays_ == Atoi(nDaysStr)
    IN  IF ~nDays_.ok THEN [cfg |-> NoConfig, err |-> "invalid N_DAYS value"]
        ELSE IF apiKey = ""
        THEN [cfg |-> NoConfig, err |-> "API_KEY environment variable is required"]
        ELSE [cfg |-> [Port |-> port, APIKey |-> apiKey, Symbol |-> symbol,
                       NDays |-> nDays_.val],
              err |-> ""]

\* the environment of a process of which only the configuration is followed
AnyEnv == [k \in {} |-> Unset("")]

\* the process once main has built the service for n days of the symbol of
\* the model and serves
Serving(n) ==
    [state |-> "serving", env |-> AnyEnv, err |-> "",
     cfg |-> [Port |-> DefaultPort, APIKey |-> "key", Symbol |-> Symbol, NDays |-> n]]

\* ------------------------------------------------------------------ HTTP
\* the patterns main registers with http.HandleFunc
Routes == {"/stocks"}

PathPool == {"/stocks", "/health"}

MethodPool == {"GET", "POST"}

NoBody == [kind |-> "none"]

\* a caller that has sent no request
NoRsp ==
    [phase |-> "none", path |-> "", method |-> "", status |-> 0, body |-> NoBody,
     before |-> EntryOf(NewCache, Symbol)]

InitState ==
    /\ now = 0
    /\ items = NewCache
    /\ ret = [op |-> "none", key |-> Nil, value |-> Nil, found |-> FALSE, at |-> 0]
    /\ lastSet = [k \in KeyPool |-> NoSet]
    /\ pc = [c \in AllCallers |-> "idle"]
    /\ data = [c \in AllCallers |-> NoData]
    /\ res = [c \in AllCallers |-> NoRes]
    /\ obs = [c \in AllCallers |-> NoObs]
    /\ lastFill = NoFill
    /\ lastDone = "none"
    /\ mu = NoLock
    /\ thr = [t \in Threads |-> NoCall]
    /\ rsp = [c \in AllCallers |-> NoRsp]

\* the service as main builds it, with the day count of the configuration
Init ==
    /\ InitState
    /\ \E n \in NDaysPool : nDays = n /\ boot = Serving(n)

Next ==
    \/ \E c \in Callers : CheckCache(c)
    \/ \E c \in Callers : Fetch(c)
    \/ \E c \in Callers : Store(c)
    \/ \E c \in Callers : Return(c)
    \/ Tick

Spec == Init /\ [][Next]_vars

\* The service in front of an arbitrary quote fetcher.
NextAnyFetcher ==
    \/ \E c \in Callers : CheckCache(c)
    \/ \E c \in Callers : FetchAny(c)
    \/ \E c \in Callers : Store(c)
    \/ \E c \in Callers : Return(c)
    \/ Tick

SpecAnyFetcher == Init /\ [][NextAnyFetcher]_vars

\* The answers of the provider while several requests are served at once: a
\* failure, or a payload with the one date 2023-01-10 and any close.
ConcHttpPool ==
    {h \in HttpPool : h.status = 500 \/ DOMAIN h.ts = {Date_2023_01_10}}

\* the call of the quote client by one of several concurrent requests
FetchConc(c) ==
    /\ pc[c] = "fetch"
    /\ \E http \in ConcHttpPool :
           FetchReturns(c, ClientGetStockData(http), ClientRequest(Symbol, nDays))

\* Requests served in parallel, each GetStockData in its own goroutine: the
\* calls interleave at the cache lookup, the client call and the cache Set.
NextConc ==
    \/ \E c \in AllCallers : CheckCache(c)
    \/ \E c \in AllCallers : FetchConc(c)
    \/ \E c \in AllCallers : Store(c)
    \/ \E c \in AllCallers : Return(c)
    \/ Tick

\* main builds the service once, with the day count of the configuration
InitConc == Init /\ nDays = DefaultNDays

SpecConc == InitConc /\ [][NextConc]_vars

\* One request at a time, for day counts around the client's threshold.
InitSize ==
    /\ InitState
    /\ \E n \in SizeDaysPool : nDays = n /\ boot = Serving(n)

NextSize ==
    \/ \E c \in Callers : CheckCache(c)
    \/ \E c \in Callers : FetchConc(c)
    \/ \E c \in Callers : Store(c)
    \/ \E c \in Callers : Return(c)
    \/ Tick

SpecSize == InitSize /\ [][NextSize]_vars

\* ----------------------------------------------------------- the server
\* The payloads of the provider while the server is followed: all three
\* dates with a good close, or the one date 2023-01-10 with any close, the
\* one that parses to NaN included.
ServerSeriesPool ==
    {[d \in DatePool |-> [Close |-> Close_150_10]]}
        \cup {[d \in {Date_2023_01_10} |-> [Close |-> cl]] : cl \in ClosePool \cup {Close_NaN}}

ServerHttpPool ==
    {[transport |-> FALSE, status |-> 200, decodes |-> TRUE, ts |-> ts] :
        ts \in ServerSeriesPool}
        \cup {[transport |-> FALSE, status |-> 500, decodes |-> FALSE, ts |-> <<>>]}

\* err.Error()
ErrorText(err) == [msg |-> err.msg, date |-> err.date]

\* api.StockResponse{Symbol, Prices, Average} of the handler
StockResponse(stockData) ==
    [Symbol |-> stockData.Symbol, Prices |-> stockData.Prices, Average |-> stockData.Average]

\* json.NewEncoder(w).Encode(v) of a StockResponse: the object with the keys
\* of the json tags, or an error when a float64 is NaN; nothing is written
\* on an error
JSONEncode(v) ==
    IF v.Average.den = 0 \/ \E i \in 1..Len(v.Prices) : v.Prices[i].Close = NaN
    THEN [ok |-> FALSE, json |-> <<>>]
    ELSE [ok |-> TRUE,
          json |-> [symbol |-> v.Symbol,
                    prices |-> [i \in 1..Len(v.Prices) |->
                                   [date |-> v.Prices[i].Date, close |-> v.Prices[i].Close]],
                    average |-> v.Average]]

\* sendJSONResponse: the status is written before the encoding is tried, so
\* the http.Error after a failed encoding only adds its text to a 200
sendJSONResponse(v) ==
    IF JSONEncode(v).ok
    THEN [status |-> 200, body |-> [kind |-> "json", json |-> JSONEncode(v).json]]
    ELSE [status |-> 200, body |-> [kind |-> "text", text |-> "Error encoding response"]]

\* sendErrorResponse(w, err.Error(), http.StatusInternalServerError)
sendErrorResponse(err) ==
    [status |-> 500, body |-> [kind |-> "error", error |-> ErrorText(err)]]

\* main: config.New(), and on an error log.Fatalf; else the service is built
\* with the configuration and the server listens
LoadConfig ==
    /\ boot.state = "init"
    /\ LET r == New(boot.env) IN
        IF r.err # ""
        THEN /\ boot' = [boot EXCEPT !.state = "exited", !.err = r.err]
             /\ UNCHANGED nDays
        ELSE /\ boot' = [boot EXCEPT !.state = "serving", !.cfg = r.cfg]
             /\ nDays' = r.cfg.NDays
    /\ UNCHANGED <<now, items, cacheObs, pc, data, res, obs, lastFill, lastDone,
                   lockVars, rsp>>

\* a request arrives: the mux answers 404 for a path that is not registered,
\* HandleStocks answers 405 for a method other than GET, and goes on to
\* call GetStockData otherwise; requests are followed for deployments of
\* the symbol the service is modelled for
Receive(c, path, method) ==
    /\ boot.state = "serving"
    /\ boot.cfg.Symbol = Symbol
    /\ pc[c] = "idle"
    /\ rsp[c].phase # "handling"
    /\ rsp' = [rsp EXCEPT ![c] =
           [path |-> path, method |-> method, before |-> EntryOf(items, Symbol),
            phase |-> IF path \in Routes /\ method = "GET" THEN "handling" ELSE "sent",
            status |-> IF path \notin Routes THEN 404
                       ELSE IF method # "GET" THEN 405 ELSE 0,
            body |-> IF path \notin Routes
                     THEN [kind |-> "text", text |-> "404 page not found"]
                     ELSE IF method # "GET"
                     THEN [kind |-> "text", text |-> "Method not allowed"]
                     ELSE NoBody]]
    /\ UNCHANGED <<now, items, cacheObs, svcVars, lockVars, boot>>

\* h.stockService.GetStockData() inside HandleStocks
Handling(c) == rsp[c].phase = "handling"

HandleCheckCache(c) == Handling(c) /\ CheckCache(c)

HandleFetch(c) ==
    /\ Handling(c)
    /\ pc[c] = "fetch"
    /\ \E http \in ServerHttpPool :
           FetchReturns(c, ClientGetStockData(http), ClientRequest(Symbol, nDays))

HandleStore(c) == Handling(c) /\ Store(c)

\* A handler that puts the prices oldest first in place before it sends
\* them.
SharedAfterRespond_Reversed(stockData) ==
    [stockData EXCEPT !.Prices =
        [i \in 1..Len(stockData.Prices) |->
            stockData.Prices[Len(stockData.Prices) + 1 - i]]]

\* The StockData that GetStockData returned is the one the cache points to.
\* HandleStocks copies its Symbol, its Prices slice header and its Average
\* into the response and writes to none of them.
SharedAfterRespond(stockData) == stockData

\* HandleStocks after GetStockData has returned; when it has panicked
\* net/http recovers and closes the connection without a response
Respond(c) ==
    /\ Handling(c)
    /\ pc[c] \in {"done", "panic"}
    /\ LET out == IF pc[c] = "panic" THEN [status |-> 0, body |-> NoBody]
                  ELSE IF res[c].status = "err" THEN sendErrorResponse(res[c].err)
                  ELSE sendJSONResponse(StockResponse(res[c].data))
       IN  rsp' = [rsp EXCEPT ![c].phase = IF pc[c] = "panic" THEN "aborted" ELSE "sent",
                              ![c].status = out.status,
                              ![c].body = out.body]
    /\ items' = IF pc[c] = "done" /\ res[c].status = "ok" /\ Symbol \in DOMAIN items
                THEN [items EXCEPT ![Symbol].Value = SharedAfterRespond(@)]
                ELSE items
    /\ UNCHANGED <<now, cacheObs, svcVars, lockVars, boot>>

\* the handler has returned
HandlerReturns(c) == ~Handling(c) /\ Return(c)

InitServer ==
    /\ InitState
    /\ nDays = 0
    /\ \E e \in EnvPool : boot = [state |-> "init", env |-> e, err |-> "", cfg |-> NoConfig]

NextServer ==
    \/ LoadConfig
    \/ \E c \in Callers, path \in PathPool, method \in MethodPool : Receive(c, path, method)
    \/ \E c \in Callers : HandleCheckCache(c)
    \/ \E c \in Callers : HandleFetch(c)
    \/ \E c \in Callers : HandleStore(c)
    \/ \E c \in Callers : Respond(c)
    \/ \E c \in Callers : HandlerReturns(c)

SpecServer == InitServer /\ [][NextServer]_vars

\* ----------------------------------------------------------- cache actions
CacheSet(key, value, duration) ==
    /\ items' = Set(items, now, key, value, duration)
    /\ ret' = [op |-> "Set", key |-> key, value |-> PriorValue(items, key),
               found |-> Get(items, now, key).found, at |-> now]
    /\ lastSet' = [lastSet EXCEPT ![key] =
           [set |-> TRUE, value |-> value, at |-> now, ttl |-> duration, swept |-> FALSE]]
    /\ UNCHANGED <<now, svcVars, lockVars, srvVars>>

CacheGet(key) ==
    /\ ret' = [op |-> "Get", key |-> key, value |-> Get(items, now, key).value,
               found |-> Get(items, now, key).found, at |-> now]
    /\ items' = ItemsAfterGet(items, now, key)
    /\ UNCHANGED <<now, lastSet, svcVars, lockVars, srvVars>>

CacheDelete(key) ==
    /\ items' = Delete(items, key)
    /\ ret' = [op |-> "Delete", key |-> key, value |-> PriorValue(items, key),
               found |-> Get(items, now, key).found, at |-> now]
    /\ lastSet' = [lastSet EXCEPT ![key] = NoSet]
    /\ UNCHANGED <<now, svcVars, lockVars, srvVars>>

CacheCleanup ==
    /\ items' = Cleanup(items, now)
    /\ ret' = [op |-> "Cleanup", key |-> Nil, value |-> Nil, found |-> FALSE, at |-> now]
    /\ lastSet' = [k \in KeyPool |->
           IF lastSet[k].set THEN [lastSet[k] EXCEPT !.swept = TRUE] ELSE lastSet[k]]
    /\ UNCHANGED <<now, svcVars, lockVars, srvVars>>

\* time passes between two calls
CacheTick ==
    /\ \E d \in ClockSteps : now + d <= 5 * MaxClock /\ now' = now + d
    /\ UNCHANGED <<items, ret, lastSet, svcVars, lockVars, srvVars>>

InitCache == Init /\ nDays = DefaultNDays

NextCache ==
    \/ \E key \in KeyPool, value \in ValuePool, duration \in TTLPool :
           CacheSet(key, value, duration)
    \/ \E key \in KeyPool : CacheGet(key)
    \/ \E key \in KeyPool : CacheDelete(key)
    \/ CacheCleanup
    \/ CacheTick

SpecCache == InitCache /\ [][NextCache]_vars

\* The wall clock is set back between two calls: time.Now().UnixNano() is
\* the wall-clock reading, in Set as in Get, so the cache sees the earlier
\* time.
ClockSetBack ==
    /\ \E d \in ClockSteps : now - d >= 0 /\ now' = now - d
    /\ UNCHANGED <<items, ret, lastSet, svcVars, lockVars, srvVars>>

\* The durations of the Sets made while the clock can move both ways.
ClockTTLPool == {5}

NextClock ==
    \/ \E key \in KeyPool, value \in ValuePool, duration \in ClockTTLPool :
           CacheSet(key, value, duration)
    \/ \E key \in KeyPool : CacheGet(key)
    \/ \E key \in KeyPool : CacheDelete(key)
    \/ CacheCleanup
    \/ CacheTick
    \/ ClockSetBack

SpecClock == InitCache /\ [][NextClock]_vars

\* ------------------------------------------------- the cache under its lock
\* The durations of the Sets that concurrent threads make.
LockTTLPool == {-5, cacheDuration}

\* A cache in which every method takes the read lock.
LockMode_AllShared(op) == "R"

\* A cache whose Set takes the read lock as Get does.
LockMode_SetShared(op) == IF op \in {"Get", "Set"} THEN "R" ELSE "W"

\* the lock a method takes: c.mu.RLock() in Get, c.mu.Lock() in the others
LockMode(op) == IF op = "Get" THEN "R" ELSE "W"

\* A method that returns without its deferred RUnlock.
RUnlock_Missing(m, t) == m

\* c.mu.RUnlock()
RUnlock(m, t) == [m EXCEPT !.readers = @ \ {t}]

\* A method that returns without its deferred Unlock.
Unlock_Missing(m, t) == m

\* c.mu.Unlock()
Unlock(m, t) == [m EXCEPT !.writer = @ \ {t}]

\* t is between its Lock/RLock and its Unlock/RUnlock
InCritical(t) == thr[t].at \in {"locked", "unlocking"}

\* a thread calls a method of the cache
Call(t, op, key, value, ttl) ==
    /\ thr[t].at = "idle"
    /\ thr' = [thr EXCEPT ![t] =
           [at |-> "locking", op |-> op, key |-> key, value |-> value, ttl |-> ttl]]
    /\ UNCHANGED <<now, items, cacheObs, svcVars, mu, srvVars>>

\* c.mu.Lock() / c.mu.RLock() returns: sync.RWMutex grants the write lock when
\* nobody holds the mutex, the read lock when no writer holds it
Acquire(t) ==
    /\ thr[t].at = "locking"
    /\ IF LockMode(thr[t].op) = "W"
       THEN /\ mu.writer = {} /\ mu.readers = {}
            /\ mu' = [mu EXCEPT !.writer = {t}]
       ELSE /\ mu.writer = {}
            /\ mu' = [mu EXCEPT !.readers = @ \cup {t}]
    /\ thr' = [thr EXCEPT ![t].at = "locked"]
    /\ UNCHANGED <<now, items, cacheObs, svcVars, srvVars>>

\* the body of the method, between the lock and the deferred unlock
Body(t) ==
    /\ thr[t].at = "locked"
    /\ LET c == thr[t] IN
        /\ items' =
               CASE c.op = "Set" -> Set(items, now, c.key, c.value, c.ttl)
                 [] c.op = "Get" -> ItemsAfterGet(items, now, c.key)
                 [] c.op = "Delete" -> Delete(items, c.key)
                 [] c.op = "Cleanup" -> Cleanup(items, now)
        /\ thr' = [thr EXCEPT ![t].at = "unlocking",
                              ![t].value = IF c.op = "Get"
                                           THEN Get(items, now, c.key).value
                                           ELSE c.value]
    /\ UNCHANGED <<now, cacheObs, svcVars, mu, srvVars>>

\* the readers that Unlock lets in: those that found a writer announced
Woken(th) == {u \in Threads : th[u].at = "blocked"}

\* the threads after t's Unlock or RUnlock has returned
AfterUnlock(th, t) ==
    [u \in Threads |->
        IF u = t THEN NoCall
        ELSE IF LockMode(th[t].op) = "W" /\ u \in Woken(th)
        THEN [th[u] EXCEPT !.at = "locked"]
        ELSE th[u]]

\* the deferred c.mu.Unlock() / c.mu.RUnlock(), and the return
Release(t) ==
    /\ thr[t].at = "unlocking"
    /\ mu' = IF LockMode(thr[t].op) = "W"
             THEN [Unlock(mu, t) EXCEPT !.readers = @ \cup Woken(thr)]
             ELSE RUnlock(mu, t)
    /\ thr' = AfterUnlock(thr, t)
    /\ UNCHANGED <<now, items, cacheObs, svcVars, srvVars>>

NextLock ==
    \/ \E t \in Threads, key \in KeyPool, value \in ValuePool, ttl \in LockTTLPool :
           Call(t, "Set", key, value, ttl)
    \/ \E t \in Threads, key \in KeyPool : Call(t, "Get", key, Nil, 0)
    \/ \E t \in Threads, key \in KeyPool : Call(t, "Delete", key, Nil, 0)
    \/ \E t \in Threads : Call(t, "Cleanup", Nil, Nil, 0)
    \/ \E t \in Threads : Acquire(t)
    \/ \E t \in Threads : Body(t)
    \/ \E t \in Threads : Release(t)

SpecLock == InitCache /\ [][NextLock]_vars

\* ------------------------------------ the service as a client of the lock
\* The goroutine that serves caller c's request.
ThreadOf(c) == IF c = "c1" THEN "t1" ELSE "t2"

\* The threads that call the cache beside the service.
LockClients == {"t2", "t3"}

\* The key and the value of the Sets those threads make.
ClientKey == "AAPL"

ClientValue == "v1"

\* Lock/RLock of t would return now
CanAcquire(t) ==
    IF LockMode(thr[t].op) = "W"
    THEN mu.writer = {} /\ mu.readers = {}
    ELSE mu.writer = {}

\* GetStockData calls s.cache.Get(cacheKey)
SvcGet(c) ==
    /\ pc[c] = "idle"
    /\ thr[ThreadOf(c)].at = "idle"
    /\ thr' = [thr EXCEPT ![ThreadOf(c)] =
           [at |-> "locking", op |-> "Get", key |-> Symbol, value |-> Nil, ttl |-> 0]]
    /\ pc' = [pc EXCEPT ![c] = "lookup"]
    /\ obs' = [obs EXCEPT ![c] = [NoObs EXCEPT !.at = now]]
    /\ UNCHANGED <<now, items, cacheObs, nDays, data, res, lastFill, lastDone, mu, srvVars>>

\* the body of that Get: what it will return is kept with the call
SvcGetBody(c) ==
    /\ pc[c] = "lookup"
    /\ thr[ThreadOf(c)].at = "locked"
    /\ LET got == Get(items, now, Symbol) IN
        /\ items' = ItemsAfterGet(items, now, Symbol)
        /\ res' = [res EXCEPT ![c] =
               IF got.found THEN [status |-> "ok", data |-> got.value, err |-> NoErr]
               ELSE NoRes]
        /\ obs' = [obs EXCEPT ![c].hit = got.found]
    /\ thr' = [thr EXCEPT ![ThreadOf(c)].at = "unlocking"]
    /\ UNCHANGED <<now, cacheObs, nDays, pc, data, lastFill, lastDone, mu, srvVars>>

\* s.cache.Get has unlocked and returned: a hit is returned to the caller,
\* a miss goes on to the client
SvcGetReturns(c) ==
    /\ pc[c] = "lookup"
    /\ thr[ThreadOf(c)].at = "unlocking"
    /\ pc' = [pc EXCEPT ![c] = IF obs[c].hit THEN "done" ELSE "fetch"]
    /\ lastDone' = IF obs[c].hit THEN "ok" ELSE lastDone
    /\ mu' = RUnlock(mu, ThreadOf(c))
    /\ thr' = [thr EXCEPT ![ThreadOf(c)] = NoCall]
    /\ UNCHANGED <<now, items, cacheObs, nDays, data, res, obs, lastFill, srvVars>>

\* GetStockData calls s.cache.Set(cacheKey, stockData, cacheDuration)
SvcSet(c) ==
    /\ pc[c] = "store"
    /\ thr[ThreadOf(c)].at = "idle"
    /\ thr' = [thr EXCEPT ![ThreadOf(c)] =
           [at |-> "locking", op |-> "Set", key |-> Symbol, value |-> Nil,
            ttl |-> cacheDuration]]
    /\ pc' = [pc EXCEPT ![c] = "storing"]
    /\ UNCHANGED <<now, items, cacheObs, nDays, data, res, obs, lastFill, lastDone, mu,
                   srvVars>>

\* the body of that Set, which stores the call's stockData
SvcSetBody(c) ==
    /\ pc[c] = "storing"
    /\ thr[ThreadOf(c)].at = "locked"
    /\ items' = Set(items, now, Symbol, data[c], thr[ThreadOf(c)].ttl)
    /\ thr' = [thr EXCEPT ![ThreadOf(c)].at = "unlocking"]
    /\ UNCHANGED <<now, cacheObs, svcVars, mu, srvVars>>

\* s.cache.Set has unlocked and returned; return stockData, nil
SvcSetReturns(c) ==
    /\ pc[c] = "storing"
    /\ thr[ThreadOf(c)].at = "unlocking"
    /\ pc' = [pc EXCEPT ![c] = "done"]
    /\ res' = [res EXCEPT ![c] = [status |-> "ok", data |-> data[c], err |-> NoErr]]
    /\ obs' = [obs EXCEPT ![c].sets = @ + 1]
    /\ lastDone' = "ok"
    /\ mu' = [Unlock(mu, ThreadOf(c)) EXCEPT !.readers = @ \cup Woken(thr)]
    /\ thr' = AfterUnlock(thr, ThreadOf(c))
    /\ UNCHANGED <<now, items, cacheObs, nDays, data, lastFill, srvVars>>

\* One request at a time in goroutine t1, while t2 and t3 call the cache.
NextSvcLock ==
    \/ \E c \in Callers : SvcGet(c)
    \/ \E c \in Callers : SvcGetBody(c)
    \/ \E c \in Callers : SvcGetReturns(c)
    \/ \E c \in Callers : FetchConc(c)
    \/ \E c \in Callers : SvcSet(c)
    \/ \E c \in Callers : SvcSetBody(c)
    \/ \E c \in Callers : SvcSetReturns(c)
    \/ \E c \in Callers : Return(c)
    \/ \E t \in LockClients, ttl \in LockTTLPool :
           Call(t, "Set", ClientKey, ClientValue, ttl)
    \/ \E t \in LockClients : Call(t, "Get", ClientKey, Nil, 0)
    \/ \E t \in LockClients, key \in KeyPool : Call(t, "Delete", key, Nil, 0)
    \/ \E t \in LockClients : Call(t, "Cleanup", Nil, Nil, 0)
    \/ \E t \in Threads : Acquire(t)
    \/ \E t \in LockClients : Body(t)
    \/ \E t \in LockClients : Release(t)

SpecSvcLock == InitConc /\ [][NextSvcLock]_vars

\* The answers of the provider in the runs that are followed to their end:
\* a failure, and the payload with the date 2023-01-10 and a close that
\* parses or one that does not.
TermHttpPool ==
    {[transport |-> FALSE, status |-> 500, decodes |-> FALSE, ts |-> <<>>]}
        \cup {[transport |-> FALSE, status |-> 200, decodes |-> TRUE,
               ts |-> [d \in {Date_2023_01_10} |-> [Close |-> cl]]] :
                  cl \in {Close_150_10, Close_invalid}}

\* what the call has in hand after each of these answers, with the default
\* day count
TermAfterFetch ==
    [http \in TermHttpPool |-> AfterFetch(ClientGetStockData(http), DefaultNDays, Symbol)]

FetchTerm(c) ==
    /\ pc[c] = "fetch"
    /\ nDays = DefaultNDays
    /\ \E http \in TermHttpPool :
           FetchResult(c, ClientGetStockData(http), ClientRequest(Symbol, nDays),
                       TermAfterFetch[http])

\* sync.RWMutex in the detail that decides who waits for whom. A writer
\* has announced itself from the moment its Lock has taken the mutex among
\* writers until its Unlock.
Announced(t) ==
    /\ thr[t].at \in {"pending", "locked", "unlocking"}
    /\ LockMode(thr[t].op) = "W"

\* Lock takes the mutex among writers and announces the writer to readers
LockAnnounce(t) ==
    /\ thr[t].at = "locking"
    /\ LockMode(thr[t].op) = "W"
    /\ \A u \in Threads : ~Announced(u)
    /\ thr' = [thr EXCEPT ![t].at = "pending"]
    /\ UNCHANGED <<now, items, cacheObs, svcVars, mu, srvVars>>

\* Lock returns when the readers that were inside have left
LockEnter(t) ==
    /\ thr[t].at = "pending"
    /\ mu.writer = {} /\ mu.readers = {}
    /\ mu' = [mu EXCEPT !.writer = {t}]
    /\ thr' = [thr EXCEPT ![t].at = "locked"]
    /\ UNCHANGED <<now, items, cacheObs, svcVars, srvVars>>

\* RLock returns at once when no writer has announced itself; otherwise the
\* reader sleeps until that writer's Unlock
RLockReturnsOrBlocks(t) ==
    /\ thr[t].at = "locking"
    /\ LockMode(thr[t].op) = "R"
    /\ IF \A u \in Threads : ~Announced(u)
       THEN /\ mu' = [mu EXCEPT !.readers = @ \cup {t}]
            /\ thr' = [thr EXCEPT ![t].at = "locked"]
       ELSE /\ mu' = mu
            /\ thr' = [thr EXCEPT ![t].at = "blocked"]
    /\ UNCHANGED <<now, items, cacheObs, svcVars, srvVars>>

NextTerm ==
    \/ \E c \in Callers : SvcGet(c)
    \/ \E c \in Callers : SvcGetBody(c)
    \/ \E c \in Callers : SvcGetReturns(c)
    \/ \E c \in Callers : FetchTerm(c)
    \/ \E c \in Callers : SvcSet(c)
    \/ \E c \in Callers : SvcSetBody(c)
    \/ \E c \in Callers : SvcSetReturns(c)
    \/ \E c \in Callers : Return(c)
    \/ \E t \in LockClients : Call(t, "Set", ClientKey, ClientValue, cacheDuration)
    \/ \E t \in LockClients : Call(t, "Get", ClientKey, Nil, 0)
    \/ \E t \in LockClients : Call(t, "Delete", Symbol, Nil, 0)
    \/ \E t \in LockClients : Call(t, "Cleanup", Nil, Nil, 0)
    \/ \E t \in Threads : LockAnnounce(t)
    \/ \E t \in Threads : LockEnter(t)
    \/ \E t \in Threads : RLockReturnsOrBlocks(t)
    \/ \E t \in LockClients : Body(t)
    \/ \E t \in LockClients : Release(t)

\* The scheduler runs every goroutine that can take a step, and the client
\* call returns. The mutex among writers is a sync.Mutex, which hands itself
\* to a waiter that has waited long: a Lock that can take it again and again
\* does take it.
FairTerm ==
    /\ \A t \in Threads :
           /\ SF_vars(LockAnnounce(t))
           /\ WF_vars(LockEnter(t))
           /\ WF_vars(RLockReturnsOrBlocks(t))
    /\ \A t \in LockClients : WF_vars(Body(t)) /\ WF_vars(Release(t))
    /\ \A c \in Callers :
           /\ WF_vars(SvcGetBody(c))
           /\ WF_vars(SvcGetReturns(c))
           /\ WF_vars(FetchTerm(c))
           /\ WF_vars(SvcSet(c))
           /\ WF_vars(SvcSetBody(c))
           /\ WF_vars(SvcSetReturns(c))

SpecTerm == InitConc /\ [][NextTerm]_vars /\ FairTerm

\* ------------------------------------- the map assignment, field by field
\* c.items[key] = Item{...} copies the Item into the map's slot word by
\* word: the Value first, the Expiration after it. A slot that the
\* assignment has just created holds the zero Item.
StoreValue(m, key, value) ==
    [k \in (DOMAIN m) \cup {key} |->
        IF k = key
        THEN [Value |-> value,
              Expiration |-> IF key \in DOMAIN m THEN m[key].Expiration ELSE 0]
        ELSE m[k]]

StoreExpiration(m, key, expiration) ==
    [k \in DOMAIN m |->
        IF k = key THEN [Value |-> m[k].Value, Expiration |-> expiration] ELSE m[k]]

\* t holds the mutex
Holding(t) == thr[t].at \in {"locked", "writing", "unlocking"}

\* Set, first half of the assignment
WriteValue(t) ==
    /\ thr[t].at = "locked"
    /\ thr[t].op = "Set"
    /\ items' = StoreValue(items, thr[t].key, thr[t].value)
    /\ thr' = [thr EXCEPT ![t].at = "writing"]
    /\ UNCHANGED <<now, cacheObs, svcVars, mu, srvVars>>

\* Set, second half of the assignment: the entry is now the one Set wrote
WriteExpiration(t) ==
    /\ thr[t].at = "writing"
    /\ thr[t].key \in DOMAIN items
    /\ items' = StoreExpiration(items, thr[t].key, ExpirationOf(now, thr[t].ttl))
    /\ lastSet' = [lastSet EXCEPT ![thr[t].key] =
           [set |-> TRUE, value |-> thr[t].value, at |-> now, ttl |-> thr[t].ttl,
            swept |-> FALSE]]
    /\ thr' = [thr EXCEPT ![t].at = "unlocking"]
    /\ UNCHANGED <<now, ret, svcVars, mu, srvVars>>

\* the body of Get, Delete or Cleanup
ReadOrRemove(t) ==
    /\ thr[t].at = "locked"
    /\ thr[t].op # "Set"
    /\ items' =
           CASE thr[t].op = "Get" -> ItemsAfterGet(items, now, thr[t].key)
             [] thr[t].op = "Delete" -> Delete(items, thr[t].key)
             [] thr[t].op = "Cleanup" -> Cleanup(items, now)
    /\ thr' = [thr EXCEPT ![t].at = "unlocking",
                          ![t].value = IF thr[t].op = "Get"
                                       THEN Get(items, now, thr[t].key).value
                                       ELSE thr[t].value]
    /\ UNCHANGED <<now, ret, svcVars, mu, srvVars>>
    /\ lastSet' =
           CASE thr[t].op = "Delete" -> [lastSet EXCEPT ![thr[t].key] = NoSet]
             [] thr[t].op = "Cleanup" ->
                    [k \in KeyPool |->
                        IF lastSet[k].set THEN [lastSet[k] EXCEPT !.swept = TRUE]
                        ELSE lastSet[k]]
             [] OTHER -> lastSet

NextAtomic ==
    \/ \E t \in Threads, key \in KeyPool, value \in ValuePool, ttl \in LockTTLPool :
           Call(t, "Set", key, value, ttl)
    \/ \E t \in Threads, key \in KeyPool : Call(t, "Get", key, Nil, 0)
    \/ \E t \in Threads, key \in KeyPool : Call(t, "Delete", key, Nil, 0)
    \/ \E t \in Threads : Call(t, "Cleanup", Nil, Nil, 0)
    \/ \E t \in Threads : Acquire(t)
    \/ \E t \in Threads : WriteValue(t)
    \/ \E t \in Threads : WriteExpiration(t)
    \/ \E t \in Threads : ReadOrRemove(t)
    \/ \E t \in Threads : Release(t)

SpecAtomic == InitCache /\ [][NextAtomic]_vars

\* ------------------------------------------------------------ cache claims
\* C2: a Get(key) at a time >= t + ttl, where Set(key, value, ttl) was called
\* at time t and the key was not rewritten since, returns (absent, false);
\* the instant now = t + ttl already counts as expired.
C2_ExpiredAtOrAfterTTL ==
    (/\ ret.op = "Get"
     /\ lastSet[ret.key].set
     /\ ret.at >= lastSet[ret.key].at + lastSet[ret.key].ttl)
        => ~ret.found

\* C3: a Get(key) at a time strictly before t + ttl, where Set(key, value, ttl)
\* was called at time t and no Set or Delete of the key intervened, returns
\* (value, true), whatever Cleanup calls and calls on other keys intervened.
C3_RoundTrip ==
    (/\ ret.op = "Get"
     /\ lastSet[ret.key].set
     /\ lastSet[ret.key].ttl > 0
     /\ ret.at < lastSet[ret.key].at + lastSet[ret.key].ttl)
        => (ret.found /\ ret.value = lastSet[ret.key].value)

\* A Get sees the value after time has passed and a Cleanup has swept the map
\* while another key was stored too.
C3_Witness ==
    /\ ret.op = "Get"
    /\ ret.found
    /\ lastSet[ret.key].set
    /\ lastSet[ret.key].swept
    /\ ret.at > lastSet[ret.key].at
    /\ ret.at < lastSet[ret.key].at + lastSet[ret.key].ttl
    /\ ret.value = lastSet[ret.key].value
    /\ \E k \in KeyPool \ {ret.key} : lastSet[k].set

\* ---------------------------------------------------------- service claims
\* the call of c has returned to its caller or panicked
Finished(c) == pc[c] \in {"done", "panic"}

\* the call of c has checked the cache
Checked(c) == pc[c] # "idle"

\* the fetcher has answered the call of c with a response and no error
FetchedOk(c) == obs[c].fetches > 0 /\ obs[c].out.err = NoErr

\* the dates of the response that c's call got
DatesOf(c) == DOMAIN obs[c].out.ts

\* d is among the n lexicographically greatest of the dates S
AmongNewest(d, S, n) == Cardinality({e \in S : StringLess(d, e)}) < n

Parses(c, d) == ParseFloat(obs[c].out.ts[d].Close).ok

MinOf(a, b) == IF a < b THEN a ELSE b

\* C1: a call that finds a non-expired entry under the symbol returns exactly
\* the cached StockData, calls the fetcher not at all and writes nothing to the
\* cache: the entry keeps its value and its expiry.
C1_CacheHitShortCircuit ==
    \A c \in Callers :
        (/\ Checked(c)
         /\ obs[c].seen.present
         /\ obs[c].at < obs[c].seen.Expiration)
            => /\ pc[c] = "done"
               /\ res[c] = [status |-> "ok", data |-> obs[c].seen.Value, err |-> NoErr]
               /\ obs[c].fetches = 0
               /\ obs[c].sets = 0
               /\ obs[c].after = obs[c].seen

\* A call was answered from an entry that an earlier call stored some time ago.
C1_Witness ==
    \E c \in Callers :
        /\ pc[c] = "done"
        /\ obs[c].hit
        /\ obs[c].seen.present
        /\ obs[c].at > obs[c].prev.at
        /\ obs[c].at < obs[c].seen.Expiration
        /\ res[c].data = obs[c].seen.Value
        /\ Len(res[c].data.Prices) > 0

\* C4: a call that misses calls the fetcher exactly once and, on success,
\* stores what it returns under the symbol; a call that follows a fill before
\* the TTL has elapsed calls the fetcher not at all and returns the same
\* StockData.
C4_MissThenFill ==
    \A c \in Callers :
        /\ (Finished(c) /\ ~obs[c].hit) => obs[c].fetches = 1
        /\ (pc[c] = "done" /\ ~obs[c].hit /\ res[c].status = "ok")
               => /\ obs[c].sets = 1
                  /\ obs[c].after.present
                  /\ obs[c].after.Value = res[c].data
        /\ (/\ Checked(c)
            /\ obs[c].prev.filled
            /\ obs[c].at < obs[c].prev.at + cacheDuration)
               => /\ pc[c] = "done"
                  /\ obs[c].fetches = 0
                  /\ res[c] = [status |-> "ok", data |-> obs[c].prev.data, err |-> NoErr]

\* A call has returned the StockData of a fill made earlier, without a fetch.
C4_Witness ==
    \E c \in Callers :
        /\ pc[c] = "done"
        /\ obs[c].prev.filled
        /\ obs[c].at > obs[c].prev.at
        /\ obs[c].at < obs[c].prev.at + cacheDuration
        /\ obs[c].fetches = 0
        /\ res[c].status = "ok"
        /\ res[c].data = obs[c].prev.data

\* C5: when the fetcher returns an error on a miss, the call returns that very
\* error, makes no Set and has called the fetcher exactly once.
C5_FetcherFailure ==
    \A c \in Callers :
        (obs[c].fetches > 0 /\ obs[c].out.err # NoErr)
            => /\ pc[c] = "done"
               /\ res[c] = [status |-> "err", data |-> NoData, err |-> obs[c].out.err]
               /\ obs[c].fetches = 1
               /\ obs[c].sets = 0
               /\ obs[c].after = obs[c].seen
               /\ EntryOf(items, Symbol) = obs[c].seen

\* A call has failed with the client's error while an expired entry was in
\* the map.
C5_Witness ==
    \E c \in Callers :
        /\ pc[c] = "done"
        /\ obs[c].out.err # NoErr
        /\ res[c].err = obs[c].out.err
        /\ obs[c].seen.present
        /\ obs[c].fetches = 1

\* C6 as claimed: if any date of the upstream series has a close that does not
\* parse, among otherwise valid dates, the call fails with an error and
\* nothing is written to the cache.
C6_AnyMalformedDateFails ==
    \A c \in Callers :
        (/\ pc[c] = "done"
         /\ FetchedOk(c)
         /\ \E d \in DatesOf(c) : ~Parses(c, d)
         /\ \E d \in DatesOf(c) : Parses(c, d))
            => /\ res[c].status = "err"
               /\ obs[c].sets = 0

\* C6 as amended: if any of the retained dates (the NDays newest) has a close
\* that does not parse, the call fails with a parse error for the whole call,
\* no partial result, and nothing is written to the cache.
C6_MalformedRetainedDateFails ==
    \A c \in Callers :
        (/\ Checked(c)
         /\ FetchedOk(c)
         /\ \E d \in DatesOf(c) : AmongNewest(d, DatesOf(c), nDays) /\ ~Parses(c, d))
            => /\ pc[c] = "done"
               /\ res[c].status = "err"
               /\ res[c].err.kind = "parse"
               /\ res[c].data = NoData
               /\ obs[c].sets = 0
               /\ obs[c].after = obs[c].seen
               /\ EntryOf(items, Symbol) = obs[c].seen

\* A call has failed on a malformed close although another retained date of
\* the response was valid.
C6_Witness ==
    \E c \in Callers :
        /\ pc[c] = "done"
        /\ FetchedOk(c)
        /\ res[c].err.kind = "parse"
        /\ \E d \in DatesOf(c) : AmongNewest(d, DatesOf(c), nDays) /\ ~Parses(c, d)
        /\ \E d \in DatesOf(c) : AmongNewest(d, DatesOf(c), nDays) /\ Parses(c, d)
        /\ Cardinality(DatesOf(c)) > nDays

C8_NonPositiveDays ==
    \A c \in Callers :
        (/\ nDays <= 0
         /\ Checked(c)
         /\ FetchedOk(c))
            => /\ pc[c] = "done"
               /\ res[c].status = "err"
               /\ res[c].err.kind = "nodata"
               /\ obs[c].sets = 0

\* C9: the prices of every successful call are sorted strictly descending by
\* date and carry the configured symbol; those of a call that fetched are the
\* lexicographically greatest dates of the response, each with its own close.
C9_OrderingAndSelection ==
    \A c \in Callers :
        (pc[c] = "done" /\ res[c].status = "ok")
            => LET prices == res[c].data.Prices
                   kept == {prices[i].Date : i \in 1..Len(prices)}
               IN  /\ res[c].data.Symbol = Symbol
                   /\ \A i, j \in 1..Len(prices) :
                          i < j => StringLess(prices[j].Date, prices[i].Date)
                   /\ ~obs[c].hit =>
                          /\ kept \subseteq DatesOf(c)
                          /\ \A d \in kept : \A e \in DatesOf(c) :
                                 StringLess(d, e) => e \in kept
                          /\ \A i \in 1..Len(prices) :
                                 /\ Parses(c, prices[i].Date)
                                 /\ prices[i].Close =
                                        ParseFloat(obs[c].out.ts[prices[i].Date].Close).val

\* A call has returned two prices with different closes out of three dates.
C9_Witness ==
    \E c \in Callers :
        /\ pc[c] = "done"
        /\ res[c].status = "ok"
        /\ ~obs[c].hit
        /\ Cardinality(DatesOf(c)) = 3
        /\ Len(res[c].data.Prices) = 2
        /\ res[c].data.Prices[1].Close # res[c].data.Prices[2].Close

\* C10: with NDays >= 1 a successful call that fetched returns
\* min(NDays, number of dates of the response) prices, and a response with
\* fewer dates than NDays, at least one, all of them well-formed, makes the
\* call succeed with all its dates.
C10_TruncationLength ==
    \A c \in Callers :
        /\ (nDays >= 1 /\ pc[c] = "done" /\ res[c].status = "ok" /\ ~obs[c].hit)
               => Len(res[c].data.Prices) = MinOf(nDays, Cardinality(DatesOf(c)))
        /\ (/\ nDays >= 1
            /\ Finished(c)
            /\ FetchedOk(c)
            /\ Cardinality(DatesOf(c)) >= 1
            /\ Cardinality(DatesOf(c)) < nDays
            /\ \A d \in DatesOf(c) : Parses(c, d))
               => /\ pc[c] = "done"
                  /\ res[c].status = "ok"
                  /\ Len(res[c].data.Prices) = Cardinality(DatesOf(c))

\* One call has returned fewer prices than NDays, all the response had, and
\* for another NDays the response had more dates than were returned.
C10_Witness ==
    \E c \in Callers :
        /\ pc[c] = "done"
        /\ res[c].status = "ok"
        /\ ~obs[c].hit
        /\ nDays >= 1
        /\ \/ (Cardinality(DatesOf(c)) = 2 /\ nDays > 2 /\ Len(res[c].data.Prices) = 2)
           \/ (Cardinality(DatesOf(c)) = 3 /\ nDays = 1 /\ Len(res[c].data.Prices) = 1)

\* the sum of the closes of a sequence of prices
RECURSIVE SumCloses(_)
SumCloses(prices) ==
    IF prices = <<>> THEN 0 ELSE Head(prices).Close + SumCloses(Tail(prices))

\* the sum of the parsed closes of the dates D of the response c's call got
RECURSIVE SumOver(_, _)
SumOver(c, D) ==
    IF D = {} THEN 0
    ELSE LET d == CHOOSE x \in D : TRUE
         IN  ParseFloat(obs[c].out.ts[d].Close).val + SumOver(c, D \ {d})

\* the example of the specification: three dates, two of them requested
ExampleSeries ==
    [d \in {<<"2", "0", "2", "3", "-", "0", "1", "-", "0", "1">>, <<"2", "0", "2", "3", "-", "0", "1", "-", "0", "2">>, <<"2", "0", "2", "3", "-", "0", "1", "-", "0", "3">>} |->
        [Close |-> IF d = <<"2", "0", "2", "3", "-", "0", "1", "-", "0", "1">> THEN <<"1", "4", "0", ".", "2", "0">>
                   ELSE IF d = <<"2", "0", "2", "3", "-", "0", "1", "-", "0", "2">> THEN <<"1", "4", "5", ".", "5", "0">>
                   ELSE <<"1", "5", "0", ".", "1", "0">>]]

\* C11: the average of every successful call is the sum of the closes in its
\* prices divided by their number; for a call that fetched, these are the
\* closes of the retained dates alone, those truncated away do not count.  The
\* dates 2023-01-01: 140.20, 2023-01-02: 145.50, 2023-01-03: 150.10 with
\* NDays = 2 give (2023-01-03, 150.10), (2023-01-02, 145.50) and 147.8.
C11_Average ==
    /\ \A c \in Callers :
           (pc[c] = "done" /\ res[c].status = "ok")
               => LET prices == res[c].data.Prices
                      avg == res[c].data.Average
                  IN  /\ avg.den > 0
                      /\ avg.num * Len(prices) = SumCloses(prices) * avg.den
                      /\ ~obs[c].hit =>
                             SumCloses(prices) =
                                 SumOver(c, {d \in DatesOf(c) :
                                                AmongNewest(d, DatesOf(c), nDays)})
    /\ processAPIResponse(ExampleSeries, 2, Symbol) =
           [status |-> "ok",
            data |-> [Symbol |-> Symbol,
                      Prices |-> <<[Date |-> <<"2", "0", "2", "3", "-", "0", "1", "-", "0", "3">>, Close |-> 15010],
                                   [Date |-> <<"2", "0", "2", "3", "-", "0", "1", "-", "0", "2">>, Close |-> 14550]>>,
                      Average |-> [num |-> 14780, den |-> 1]],
            err |-> NoErr]

\* A call has averaged two different closes and left out the different close
\* of a third, older date.
C11_Witness ==
    \E c \in Callers :
        /\ pc[c] = "done"
        /\ res[c].status = "ok"
        /\ ~obs[c].hit
        /\ nDays = 2
        /\ Cardinality(DatesOf(c)) = 3
        /\ res[c].data.Prices[1].Close = 15010
        /\ res[c].data.Prices[2].Close = 14550
        /\ obs[c].out.ts[Date_2022_12_31].Close = Close_150_10
        /\ res[c].data.Average = [num |-> 14780, den |-> 1]

\* the call of c has fetched a response that cannot give a series: the fetcher
\* failed, a retained close is malformed, or no date is retained
FetchedBad(c) ==
    /\ obs[c].fetches = 1
    /\ \/ obs[c].out.err # NoErr
       \/ processAPIResponse(obs[c].out.ts, nDays, Symbol).status # "ok"

\* C12: a GetStockData call whose fetch fails, or whose response has a
\* malformed retained close or no retained date, ends as a failure that has
\* made no Set and leaves the entry of the symbol, present or not, exactly as
\* the call found it; the call that follows a failed call misses, fetches
\* once, and when the response it fetches processes to a series it returns
\* that series and stores it for 15 minutes.
C12_FailureNotCached ==
    \A c \in Callers :
        /\ (pc[c] \in {"done", "panic"} /\ FetchedBad(c)) =>
               /\ res[c].status \in {"err", "panic"}
               /\ res[c].data = NoData
               /\ obs[c].sets = 0
               /\ EntryOf(items, Symbol) = obs[c].seen
        /\ (pc[c] # "idle" /\ obs[c].prevDone \in {"err", "panic"}) =>
               /\ ~obs[c].hit
               /\ pc[c] \in {"done", "panic"} => obs[c].fetches = 1
               /\ (pc[c] = "done" /\ ~FetchedBad(c)) =>
                      LET r == processAPIResponse(obs[c].out.ts, nDays, Symbol) IN
                      /\ res[c] = [status |-> "ok", data |-> r.data, err |-> NoErr]
                      /\ obs[c].sets = 1
                      /\ EntryOf(items, Symbol) =
                             [present |-> TRUE, Value |-> r.data,
                              Expiration |-> obs[c].after.Expiration]
                      /\ obs[c].after.Expiration \in obs[c].at + cacheDuration .. now + cacheDuration

\* a call has failed while an expired entry was in the map, and the call after
\* it has fetched again and returned a series
C12_Witness ==
    \E c \in Callers :
        /\ pc[c] = "done"
        /\ obs[c].prevDone = "err"
        /\ obs[c].seen.present
        /\ obs[c].seen.Expiration < obs[c].at
        /\ obs[c].fetches = 1
        /\ res[c].status = "ok"
        /\ items[Symbol].Value = res[c].data
        /\ items[Symbol].Value # obs[c].seen.Value

\* the entry of every key that was Set and is still in the map is the one its
\* last Set wrote, and a Get before that entry's expiry returns its value
LastWriteWins ==
    /\ \A k \in KeyPool :
           (lastSet[k].set /\ k \in DOMAIN items) =>
               items[k] = [Value |-> lastSet[k].value,
                           Expiration |-> lastSet[k].at + lastSet[k].ttl]
    /\ ret.op = "Set" =>
           /\ ret.key \in DOMAIN items
           /\ lastSet[ret.key].set
           /\ lastSet[ret.key].at = ret.at
    /\ (ret.op = "Get" /\ lastSet[ret.key].set
            /\ ret.at < lastSet[ret.key].at + lastSet[ret.key].ttl) =>
           (ret.found /\ ret.value = lastSet[ret.key].value)

\* a Set writes the entry of its key and of no other key
SetKeepsOtherKeys ==
    (ret'.op = "Set" /\ now' = now) =>
        /\ DOMAIN items' = DOMAIN items \cup {ret'.key}
        /\ \A k \in DOMAIN items : k # ret'.key => items'[k] = items[k]
        /\ lastSet'[ret'.key].ttl > 0 =>
               Get(items', now', ret'.key) =
                   [value |-> lastSet'[ret'.key].value, found |-> TRUE]

\* C13: Set overwrites unconditionally: after any Sets of a key the stored
\* entry is exactly (value of the last Set, time of the last Set + its ttl),
\* a Get before that expiry returns (that value, true) whatever the earlier
\* Sets stored, and a Set leaves the entries of all other keys as they were.
C13_LastWriteWins == []LastWriteWins /\ [][SetKeepsOtherKeys]_vars

\* a Set has overwritten an expired entry that held another value, the key
\* is readable again with the new value, its new expiry is earlier than a
\* Set of the other key's, whose entry is still in the map
C13_Witness ==
    /\ ret.op = "Set"
    /\ ret.value \in ValuePool
    /\ ~ret.found
    /\ ret.value # lastSet[ret.key].value
    /\ Get(items, now, ret.key) = [value |-> lastSet[ret.key].value, found |-> TRUE]
    /\ \E k \in DOMAIN items :
           /\ k # ret.key
           /\ lastSet[k].at < ret.at
           /\ items[k].Expiration > items[ret.key].Expiration

\* C14: a Get(key) at the very instant of a Set(key, value, 0), with no
\* clock advance between the two calls, returns (absent, false).
C14_ZeroTTL ==
    (/\ ret.op = "Get"
     /\ lastSet[ret.key].set
     /\ lastSet[ret.key].ttl = 0
     /\ lastSet[ret.key].at = ret.at)
        => (~ret.found /\ ret.value = Nil)

DeletedIsAbsent ==
    /\ ret.op = "Delete" =>
           (ret.key \notin DOMAIN items /\ ~Get(items, now, ret.key).found)
    /\ \A k \in KeyPool : ~lastSet[k].set => k \notin DOMAIN items
    /\ (ret.op = "Get" /\ ~lastSet[ret.key].set) => (~ret.found /\ ret.value = Nil)

\* a Delete removes the entry of its key, if there is one, and nothing else
DeleteKeepsOtherKeys ==
    (ret'.op = "Delete" /\ now' = now) =>
        /\ DOMAIN items' = DOMAIN items \ {ret'.key}
        /\ \A k \in DOMAIN items' : items'[k] = items[k]
        /\ ret'.key \notin DOMAIN items => items' = items

\* C16: Delete(key) removes exactly the entry of key, expired or not: the key
\* is absent afterwards and Get(key) returns (absent, false) until the next
\* Set(key); on an absent key Delete changes nothing; every other key keeps
\* its entry.
C16_Delete == []DeletedIsAbsent /\ [][DeleteKeepsOtherKeys]_vars

\* a Delete has removed a readable entry while the other key's entry, Set
\* before, is still in the map
C16_Witness ==
    /\ ret.op = "Delete"
    /\ ret.found
    /\ ret.value \in ValuePool
    /\ ret.key \notin DOMAIN items
    /\ \E k \in DOMAIN items :
           /\ lastSet[k].set
           /\ items[k] = [Value |-> lastSet[k].value,
                           Expiration |-> lastSet[k].at + lastSet[k].ttl]

\* after a Cleanup no entry whose expiry lies before the time of the sweep is
\* left, and an entry whose expiry has not passed is in the map however many
\* sweeps there were since its Set
SweptIsClean ==
    /\ ret.op = "Cleanup" =>
           \A k \in DOMAIN items : items[k].Expiration >= ret.at
    /\ \A k \in KeyPool :
           (lastSet[k].set /\ now <= lastSet[k].at + lastSet[k].ttl) =>
               /\ k \in DOMAIN items
               /\ items[k] = [Value |-> lastSet[k].value,
                               Expiration |-> lastSet[k].at + lastSet[k].ttl]

\* a Cleanup at time t leaves exactly the entries whose expiry t has not
\* passed, each as it was
CleanupRemovesExpiredOnly ==
    (ret'.op = "Cleanup" /\ now' = now) =>
        /\ DOMAIN items' = {k \in DOMAIN items : ~(now > items[k].Expiration)}
        /\ \A k \in DOMAIN items' : items'[k] = items[k]

C18_NoDataRace ==
    /\ \A t \in Threads :
           (InCritical(t) /\ thr[t].op # "Get") =>
               \A u \in Threads \ {t} : ~InCritical(u)
    /\ \A t, u \in Threads :
           (InCritical(t) /\ InCritical(u) /\ thr[t].op = "Get") => thr[u].op = "Get"
    /\ \A t \in Threads :
           InCritical(t) =>
               IF thr[t].op = "Get"
               THEN t \in mu.readers /\ mu.writer = {}
               ELSE mu.writer = {t} /\ mu.readers = {}
    /\ \A t \in Threads : ~InCritical(t) => (t \notin mu.readers /\ t \notin mu.writer)

\* two threads are inside Get on a key that is in the map while a third has
\* called Set on the same key and waits for the lock
C18_Witness ==
    \E t, u, w \in Threads :
        /\ t # u
        /\ InCritical(t) /\ thr[t].op = "Get"
        /\ InCritical(u) /\ thr[u].op = "Get"
        /\ thr[u].key = thr[t].key
        /\ thr[t].key \in DOMAIN items
        /\ thr[w].at = "locking" /\ thr[w].op = "Set" /\ thr[w].key = thr[t].key

\* C19: with callers that run GetStockData at the same time, every caller
\* that misses makes its own single fetch and, when that succeeds, its own
\* single Set (no caller fetches or stores twice, none waits for another);
\* the entry in the cache is the one the last Set wrote; callers that missed
\* and fetched the same payload return equal series, and while all Sets have
\* stored the same series every caller's result equals the cached one.
C19_ConcurrentMisses ==
    /\ \A c \in AllCallers :
           /\ obs[c].fetches <= 1 /\ obs[c].sets <= 1
           /\ obs[c].hit => (obs[c].fetches = 0 /\ obs[c].sets = 0)
           /\ (pc[c] \in {"store", "done", "panic"} /\ ~obs[c].hit) => obs[c].fetches = 1
           /\ (pc[c] = "done" /\ ~obs[c].hit /\ res[c].status = "ok") => obs[c].sets = 1
           /\ (pc[c] = "done" /\ res[c].status = "err") => obs[c].sets = 0
    /\ lastFill.filled =>
           /\ Symbol \in DOMAIN items
           /\ items[Symbol] =
                  [Value |-> lastFill.data, Expiration |-> lastFill.at + cacheDuration]
    /\ \A c, d \in AllCallers :
           (/\ pc[c] = "done" /\ pc[d] = "done"
            /\ res[c].status = "ok" /\ res[d].status = "ok"
            /\ ~obs[c].hit /\ ~obs[d].hit
            /\ obs[c].out = obs[d].out) => res[c].data = res[d].data
    /\ ~lastFill.mixed =>
           \A c \in AllCallers :
               (pc[c] = "done" /\ res[c].status = "ok") =>
                   res[c].data = items[Symbol].Value

\* two callers have both missed the cold cache before either stored, each
\* has fetched the same payload and made its own Set, and the entry carries
\* the expiry of the later Set
C19_Witness ==
    /\ \A c \in AllCallers :
           /\ pc[c] = "done"
           /\ res[c].status = "ok"
           /\ ~obs[c].hit
           /\ ~obs[c].seen.present
           /\ ~obs[c].prev.filled
           /\ obs[c].fetches = 1
           /\ obs[c].sets = 1
           /\ res[c].data = items[Symbol].Value
    /\ \E c \in AllCallers : obs[c].after.Expiration < items[Symbol].Expiration

\* C20: a call that finds an entry of the symbol whose expiry time has been
\* reached (now >= expiresAt) goes the way of a miss: it does not return the
\* entry's value, it fetches once, and on success it returns the fetched
\* series and stores it with the expiry store-time + 15 minutes; when the
\* fetch fails it returns no series at all.
C20_ExpiredHitIsMiss ==
    \A c \in Callers :
        (/\ pc[c] # "idle"
         /\ obs[c].seen.present
         /\ obs[c].at >= obs[c].seen.Expiration) =>
            /\ ~obs[c].hit
            /\ pc[c] \in {"store", "done", "panic"} => obs[c].fetches = 1
            /\ (pc[c] = "done" /\ res[c].status = "ok") =>
                   /\ res[c].data = processAPIResponse(obs[c].out.ts, nDays, Symbol).data
                   /\ obs[c].sets = 1
                   /\ obs[c].after.Value = res[c].data
                   /\ obs[c].after.Expiration \in
                          obs[c].at + cacheDuration .. now + cacheDuration
            /\ (pc[c] = "done" /\ res[c].status = "err") =>
                   (res[c].data = NoData /\ obs[c].sets = 0)

\* C21: a series returned from the cache was stored by a Set at most 15
\* minutes before the cache check that returned it, hits do not renew the
\* expiry, and a call whose cache check comes 15 minutes or more after the
\* last fill does not get the cached series: it fetches again.
C21_BoundedStaleness ==
    \A c \in Callers :
        pc[c] # "idle" =>
            /\ obs[c].hit =>
                   /\ obs[c].prev.filled
                   /\ obs[c].at - obs[c].prev.at <= cacheDuration
                   /\ res[c].data = obs[c].prev.data
                   /\ obs[c].seen.Expiration = obs[c].prev.at + cacheDuration
                   /\ obs[c].after = obs[c].seen
            /\ (obs[c].prev.filled /\ obs[c].at >= obs[c].prev.at + cacheDuration) =>
                   /\ ~obs[c].hit
                   /\ pc[c] \in {"store", "done", "panic"} => obs[c].fetches = 1

\* the map of the service's cache holds no key but the configured symbol, and
\* it holds that key exactly when some call has stored a series
OnlyTheSymbol ==
    /\ DOMAIN items \subseteq {Symbol}
    /\ Cardinality(DOMAIN items) <= 1
    /\ lastFill.filled <=> Symbol \in DOMAIN items

\* no step of the service takes an entry out of the map
EntryStays == \A k \in DOMAIN items : k \in DOMAIN items'

\* C22: with any interleaving of GetStockData calls the cache holds at most
\* one entry, under the configured symbol, and an entry once written stays
\* in the map, expired or not, until a later Set overwrites it.
C22_SingleEntry == []OnlyTheSymbol /\ [][EntryStays]_vars

\* the one entry is in the map after its expiry, a caller that found it
\* expired has ended in an error, and another caller is about to overwrite it
C22_Witness ==
    /\ DOMAIN items = {Symbol}
    /\ now > items[Symbol].Expiration
    /\ \E c, d \in AllCallers :
           /\ pc[c] = "done" /\ res[c].status = "err"
           /\ obs[c].seen.present /\ obs[c].seen.Expiration < obs[c].at
           /\ pc[d] = "store"

\* C23: on a miss the fetcher is called with the configured symbol and the
\* configured day count as they are, and the client asks the provider for
\* "full" when that count is above 100 and for "compact" when it is 100 or
\* less, zero and negative counts included.
C23_PassThroughAndSize ==
    \A c \in Callers :
        /\ obs[c].fetches = 0 => obs[c].req = NoReq
        /\ obs[c].fetches = 1 =>
               /\ ~obs[c].hit
               /\ obs[c].req.symbol = Symbol
               /\ obs[c].req.days = nDays
               /\ nDays > 100 => obs[c].req.outputsize = "full"
               /\ nDays <= 100 => obs[c].req.outputsize = "compact"

\* the client has been called with the day count 100, the threshold itself,
\* and has asked for the compact output
C23_Witness ==
    \E c \in Callers :
        /\ obs[c].fetches = 1
        /\ obs[c].req = [symbol |-> DefaultSymbol, days |-> 100, outputsize |-> "compact"]
        /\ pc[c] = "done"
        /\ res[c].status = "ok"

\* C24: the answer to a GET /stocks whose GetStockData call has returned a
\* series is 200 with a JSON object that carries exactly the symbol, the
\* prices and the average of that series; when the call has returned an
\* error the answer is 500 with the error's message; a request to /stocks
\* with another method is answered 405 without a GetStockData call, a fetch
\* or a change of the cache.
C24_HttpMapping ==
    \A c \in Callers :
        (rsp[c].phase = "sent" /\ rsp[c].path = "/stocks") =>
            /\ (rsp[c].method = "GET" /\ pc[c] = "done" /\ res[c].status = "ok") =>
                   /\ rsp[c].status = 200
                   /\ rsp[c].body.kind = "json"
                   /\ rsp[c].body.json.symbol = res[c].data.Symbol
                   /\ rsp[c].body.json.average = res[c].data.Average
                   /\ Len(rsp[c].body.json.prices) = Len(res[c].data.Prices)
                   /\ \A i \in 1..Len(res[c].data.Prices) :
                          /\ rsp[c].body.json.prices[i].date = res[c].data.Prices[i].Date
                          /\ rsp[c].body.json.prices[i].close = res[c].data.Prices[i].Close
            /\ (rsp[c].method = "GET" /\ pc[c] = "done" /\ res[c].status = "err") =>
                   /\ rsp[c].status = 500
                   /\ rsp[c].body.kind = "error"
                   /\ rsp[c].body.error = ErrorText(res[c].err)
            /\ rsp[c].method # "GET" =>
                   /\ rsp[c].status = 405
                   /\ pc[c] = "idle"
                   /\ obs[c] = NoObs
                   /\ EntryOf(items, Symbol) = rsp[c].before

\* C25: in a service started with NDAYS=n in its environment, a GetStockData
\* call asks the fetcher for n days and returns at most n prices; started
\* without NDAYS it does so for 7 days.
C25_DayCountFromNDAYS ==
    LET n == IF boot.env.NDAYS.set /\ Atoi(boot.env.NDAYS.val).ok
             THEN Atoi(boot.env.NDAYS.val).val
             ELSE DefaultNDays
    IN  boot.state = "serving" =>
            \A c \in Callers :
                /\ obs[c].fetches = 1 => obs[c].req.days = n
                /\ (pc[c] = "done" /\ res[c].status = "ok") => Len(res[c].data.Prices) <= n

\* C26: the serving process answers a GET /health with success (200).
C26_HealthEndpoint ==
    \A c \in Callers :
        (rsp[c].phase = "sent" /\ rsp[c].path = "/health" /\ rsp[c].method = "GET") =>
            rsp[c].status = 200

\* config.New fails and the process exits where the claim says so, and else
\* yields port, symbol and day count from PORT, SYMBOL and N_DAYS, each with
\* its default for a variable that is not set or empty
ConfigAsClaimed(e, state, cfg) ==
    LET keyMissing == ~e.API_KEY.set \/ e.API_KEY.val = ""
        daysGiven == e.N_DAYS.set /\ e.N_DAYS.val # <<>>
        daysBad == daysGiven /\ e.N_DAYS.val \notin {<<"3">>, <<"-", "1">>}
    IN  IF keyMissing \/ daysBad THEN state = "exited"
        ELSE /\ state = "serving"
             /\ cfg.APIKey = e.API_KEY.val
             /\ cfg.Port = (IF e.PORT.set /\ e.PORT.val # "" THEN e.PORT.val ELSE "8080")
             /\ cfg.Symbol =
                    (IF e.SYMBOL.set /\ e.SYMBOL.val # "" THEN e.SYMBOL.val ELSE "IBM")
             /\ cfg.NDays = (CASE ~daysGiven -> 7
                               [] e.N_DAYS.val = <<"3">> -> 3
                               [] e.N_DAYS.val = <<"-", "1">> -> -1)

CallIsLinear ==
    \A c \in Callers :
        /\ pc[c] = "idle" => (obs[c].fetches = 0 /\ obs[c].sets = 0)
        /\ pc[c] = "fetch" => (~obs[c].hit /\ obs[c].fetches = 0 /\ obs[c].sets = 0)
        /\ pc[c] = "store" => (~obs[c].hit /\ obs[c].fetches = 1 /\ obs[c].sets = 0)
        /\ obs[c].hit => (obs[c].fetches = 0 /\ obs[c].sets = 0 /\ pc[c] = "done")
        /\ obs[c].fetches <= 1 /\ obs[c].sets <= 1
        /\ pc[c] \in {"store", "done", "panic"} /\ ~obs[c].hit => obs[c].fetches = 1
        /\ obs[c].sets = 1 =>
               /\ pc[c] = "done"
               /\ obs[c].fetches = 1
               /\ obs[c].out.err = NoErr
               /\ processAPIResponse(obs[c].out.ts, nDays, Symbol) =
                      [status |-> "ok", data |-> res[c].data, err |-> NoErr]
               /\ res[c].status = "ok"
               /\ obs[c].after.present /\ obs[c].after.Value = res[c].data
        /\ (pc[c] = "done" /\ res[c].status = "ok" /\ ~obs[c].hit) => obs[c].sets = 1

\* the steps of a call come in the order check, fetch, store: the fetch is
\* made by a call that has checked and missed, the map changes only in the
\* store step of a call that has fetched
CallStepsInOrder ==
    \A c \in Callers :
        /\ obs'[c].fetches > obs[c].fetches => (pc[c] = "fetch" /\ ~obs[c].hit)
        /\ obs'[c].sets > obs[c].sets =>
               (pc[c] = "store" /\ obs[c].fetches = 1 /\ pc'[c] = "done")
        /\ items' # items => \E d \in Callers : pc[d] = "store" /\ obs'[d].sets = 1
        /\ (pc[c] = "idle" /\ pc'[c] # "idle") => pc'[c] \in {"done", "fetch"}

\* C28: every GetStockData call runs CheckCache, then on a hit returns, and
\* on a miss fetches, transforms, stores and returns: the cache Get comes
\* before any fetch, there is at most one fetch and one Set per call, and a
\* Set is made only after fetch and transform have succeeded and stores
\* exactly the value the call returns.
C28_LinearSteps == []CallIsLinear /\ [][CallStepsInOrder]_vars

\* a call has missed on an expired entry, fetched once, stored once and
\* returned the series it stored
C28_Witness ==
    \E c \in Callers :
        /\ pc[c] = "done"
        /\ ~obs[c].hit
        /\ obs[c].seen.present
        /\ obs[c].fetches = 1
        /\ obs[c].sets = 1
        /\ res[c].status = "ok"
        /\ items[Symbol].Value = res[c].data
        /\ Len(res[c].data.Prices) = 2

\* the dates of c's response that truncation keeps
Retained(c) == {d \in DatesOf(c) : AmongNewest(d, DatesOf(c), nDays)}

\* C29: closes are parsed for the retained dates only, newest first, up to
\* the first that fails: a call whose response has a malformed retained
\* close returns the parse error that names the newest such date, and a call
\* whose retained closes all parse succeeds whatever the closes of the
\* dates that truncation dropped.
C29_FailFastParseOrder ==
    \A c \in Callers :
        (pc[c] = "done" /\ FetchedOk(c)) =>
            LET bad == {d \in Retained(c) : ~Parses(c, d)} IN
            /\ bad # {} =>
                   /\ res[c].status = "err"
                   /\ res[c].err.kind = "parse"
                   /\ res[c].err.date \in bad
                   /\ \A d \in bad \ {res[c].err.date} : StringLess(d, res[c].err.date)
                   /\ \A d \in Retained(c) :
                          StringLess(res[c].err.date, d) => Parses(c, d)
            /\ (bad = {} /\ Retained(c) # {}) =>
                   /\ res[c].status = "ok"
                   /\ Len(res[c].data.Prices) = Cardinality(Retained(c))
            /\ res[c].err.kind = "parse" => res[c].err.date \in bad

\* all three dates are retained, the two older closes are malformed, and the
\* error names the newer of the two
C29_Witness ==
    \E c \in Callers :
        /\ pc[c] = "done"
        /\ FetchedOk(c)
        /\ DatesOf(c) = DatePool
        /\ Retained(c) = DatePool
        /\ Parses(c, Date_2023_01_10)
        /\ ~Parses(c, Date_2023_01_02)
        /\ ~Parses(c, Date_2022_12_31)
        /\ res[c].err.kind = "parse"
        /\ res[c].err.date = Date_2023_01_02

\* with one date retained the call succeeds though the close of a dropped,
\* older date is malformed
C29_DroppedNotParsed ==
    \E c \in Callers :
        /\ pc[c] = "done"
        /\ FetchedOk(c)
        /\ Cardinality(Retained(c)) = 1
        /\ \E d \in DatesOf(c) \ Retained(c) : ~Parses(c, d)
        /\ res[c].status = "ok"

\* an entry that is expired and that the step leaves as it is stays absent
\* for Get
ExpiredStaysAbsent ==
    \A k \in KeyPool :
        (/\ k \in DOMAIN items
         /\ GetExpired(now, items[k])
         /\ k \in DOMAIN items'
         /\ items'[k] = items[k]) => ~Get(items', now', k).found

\* C30: once an entry that is not rewritten has expired, no later Get
\* returns it, whichever way the wall clock moves afterwards.
C30_MonotonicSafeExpiry == [][ExpiredStaysAbsent]_vars

\* what a Get of key returns from a cache that runs one call at a time and
\* whose last Set, Delete or Cleanup left lastSet
GetOfLast(key) ==
    IF lastSet[key].set /\ ~GetExpired(now, [Value |-> lastSet[key].value,
                                  Expiration |-> ExpirationOf(lastSet[key].at, lastSet[key].ttl)])
    THEN lastSet[key].value
    ELSE Nil

\* C31: with threads that call Get, Set, Delete and Cleanup at the same
\* time, and a Set that writes its entry field by field, the calls take
\* effect one at a time in the order of their critical sections: every Get
\* returns what the last completed Set, Delete or Cleanup before it left for
\* its key (so never a value no Set wrote for the key), and whenever no Set
\* is in the middle of its assignment every entry in the map has the value
\* and the expiry of one and the same Set.
C31_Linearizable ==
    /\ \A t \in Threads :
           (thr[t].op = "Get" /\ thr[t].at = "unlocking") =>
               thr[t].value = GetOfLast(thr[t].key)
    /\ \A t \in Threads :
           (thr[t].op = "Get" /\ Holding(t)) =>
               \A k \in DOMAIN items :
                   /\ lastSet[k].set
                   /\ items[k] = [Value |-> lastSet[k].value,
                                  Expiration |-> ExpirationOf(lastSet[k].at, lastSet[k].ttl)]
    /\ (\A t \in Threads : thr[t].at # "writing") =>
           \A k \in DOMAIN items :
               /\ lastSet[k].set
               /\ items[k] = [Value |-> lastSet[k].value,
                              Expiration |-> ExpirationOf(lastSet[k].at, lastSet[k].ttl)]

\* a Get has returned the value of the live entry while a Set of another
\* value and a Delete of the same key wait for the lock
C31_Witness ==
    \E t, u, w \in Threads :
        /\ thr[t].op = "Get" /\ thr[t].at = "unlocking"
        /\ thr[t].value # Nil
        /\ thr[u].op = "Set" /\ thr[u].at = "locking"
        /\ thr[u].key = thr[t].key /\ thr[u].value # thr[t].value
        /\ thr[w].op = "Delete" /\ thr[w].at = "locking" /\ thr[w].key = thr[t].key

\* C32: a GetStockData call that is in the client holds the cache's lock in
\* no mode and is in no method of the cache, and a thread whose Lock or
\* RLock cannot return is kept out by a thread that is inside a method of
\* the cache, between its lock and its unlock, never by a call that is in
\* the client.
C32_NoLockAcrossFetch ==
    /\ \A c \in Callers :
           pc[c] \in {"fetch", "store", "done"} =>
               /\ thr[ThreadOf(c)].at = "idle"
               /\ ThreadOf(c) \notin mu.writer \cup mu.readers
    /\ \A t \in Threads :
           (thr[t].at = "locking" /\ ~CanAcquire(t)) =>
               \E u \in Threads \ {t} :
                   /\ u \in mu.writer \cup mu.readers
                   /\ InCritical(u)
                   /\ \A c \in Callers : ThreadOf(c) = u => pc[c] \in {"lookup", "storing"}
    /\ \A u \in mu.writer \cup mu.readers : InCritical(u)

\* while the request is in the client, one thread has run the body of a Set
\* and is about to unlock, and another waits in Get's RLock for that unlock
C32_Witness ==
    \E c \in Callers, t, u \in LockClients :
        /\ pc[c] = "fetch"
        /\ obs[c].fetches = 0
        /\ thr[t].op = "Set" /\ thr[t].at = "unlocking"
        /\ ClientKey \in DOMAIN items
        /\ thr[u].op = "Get" /\ thr[u].at = "locking"
        /\ ~CanAcquire(u)

\* C33: under fair scheduling every call of Get, Set, Delete and Cleanup
\* that a thread has made is followed by its return with the lock released,
\* and every GetStockData call that has started is followed by its end,
\* given that its client call returns.
C33_CallsComplete ==
    /\ \A t \in Threads :
           (thr[t].at # "idle") ~> (thr[t].at = "idle" /\ t \notin mu.writer \cup mu.readers)
    /\ \A c \in Callers :
           (pc[c] \in {"lookup", "fetch", "store", "storing"}) ~> (pc[c] \in {"done", "panic"})

\* the service's Set has announced itself and waits for the Get of one
\* thread to leave, while the Get of another thread sleeps until that Set
\* has unlocked
C33_Witness ==
    \E c \in Callers, t, u \in LockClients :
        /\ pc[c] = "storing"
        /\ thr[ThreadOf(c)].at = "pending"
        /\ thr[t].op = "Get" /\ InCritical(t) /\ t \in mu.readers
        /\ thr[u].op = "Get" /\ thr[u].at = "blocked"

\* a step that changes the map is a Set, a Delete or a Cleanup, and a step
\* that takes an entry out of the map is a Delete of its key or a Cleanup
\* at a time when the entry has expired
OnlyWritesChangeMap ==
    /\ items' # items => ret'.op \in {"Set", "Delete", "Cleanup"}
    /\ ret'.op = "Get" => items' = items
    /\ \A k \in DOMAIN items :
           k \notin DOMAIN items' =>
               \/ ret'.op = "Delete" /\ ret'.key = k
               \/ ret'.op = "Cleanup" /\ CleanupExpired(now, items[k])

\* C34: Get leaves the map as it found it (keys, values and expiries),
\* whether the key is missing, its entry live or its entry expired; an
\* expired entry stays in the map until a Delete, a Cleanup or a Set of its
\* key.
C34_GetIsReadOnly == [][OnlyWritesChangeMap]_vars

\* a Get has just reported an entry absent that is expired and still in the
\* map, next to a key that is not in the map
C34_Witness ==
    /\ ret.op = "Get"
    /\ ret.at = now
    /\ ~ret.found
    /\ ret.key \in DOMAIN items
    /\ GetExpired(now, items[ret.key])
    /\ \E k \in KeyPool : k \notin DOMAIN items

\* the map that the same Sets and Deletes leave when no Cleanup runs
WithoutCleanup ==
    [k \in {j \in KeyPool : lastSet[j].set} |->
        [Value |-> lastSet[k].value,
         Expiration |-> ExpirationOf(lastSet[k].at, lastSet[k].ttl)]]

\* a step takes out of the map only entries that Get reports absent
RemovesOnlyAbsent ==
    ret'.op = "Cleanup" =>
        \A k \in DOMAIN items : k \notin DOMAIN items' => ~Get(items, now, k).found

\* C35: Cleanup removes an entry only when Get reports it absent at that
\* time, and at every time Get returns for every key what it would return
\* had no Cleanup run before.
C35_CleanupInvisible ==
    /\ [](\A k \in KeyPool : Get(items, now, k) = Get(WithoutCleanup, now, k))
    /\ [][RemovesOnlyAbsent]_vars

\* v is a series as a successful transform builds it for the configured
\* symbol and day count
WellFormedSeries(v) ==
    /\ v.Symbol = Symbol
    /\ Len(v.Prices) >= 1
    /\ Len(v.Prices) <= nDays
    /\ \A i, j \in 1..Len(v.Prices) :
           i < j => StringLess(v.Prices[j].Date, v.Prices[i].Date)
    /\ v.Average.den > 0
    /\ v.Average.num * Len(v.Prices) = SumCloses(v.Prices) * v.Average.den
    /\ \E ts \in SeriesPool :
           processAPIResponse(ts, nDays, Symbol) = [status |-> "ok", data |-> v, err |-> NoErr]

SeriesChangesByStore ==
    (/\ Symbol \in DOMAIN items
     /\ Symbol \in DOMAIN items'
     /\ items'[Symbol].Value # items[Symbol].Value) =>
        /\ lastFill'.filled
        /\ items'[Symbol].Value = lastFill'.data
        /\ \E c \in Callers : pc[c] = "store" /\ pc'[c] = "done"

\* C37: nothing changes a series once it is built. The entry under the
\* symbol holds the series as the last fill stored it, a call that hits
\* returns that series, and the JSON body sent for it carries its symbol,
\* its prices in their order and its average.
C37_ImmutableSeries ==
    /\ [](lastFill.filled =>
             /\ Symbol \in DOMAIN items
             /\ items[Symbol].Value = lastFill.data)
    /\ [](\A c \in Callers :
             (pc[c] = "done" /\ obs[c].hit) =>
                 /\ obs[c].prev.filled
                 /\ res[c].data = obs[c].prev.data
                 /\ (rsp[c].phase = "sent" /\ rsp[c].body.kind = "json") =>
                        rsp[c].body.json = JSONEncode(StockResponse(obs[c].prev.data)).json)
    /\ [][SeriesChangesByStore]_vars

\* the answer to a request that hit the cache has been sent and carries the
\* three prices of the fill, newest first
C37_Witness ==
    \E c \in Callers :
        /\ pc[c] = "done"
        /\ obs[c].hit
        /\ rsp[c].phase = "sent"
        /\ rsp[c].body.kind = "json"
        /\ Len(rsp[c].body.json.prices) = 3
        /\ rsp[c].body.json.prices[1].date = Date_2023_01_10
        /\ lastFill.filled
        /\ lastFill.data.Prices[1].Date = Date_2023_01_10

\* C38: the quote client answers a transport failure, a status other than
\* 200, a body that does not decode and a payload without time-series
\* entries with an error each, and a response it returns without error has
\* at least one date; so with NDays >= 1 every successful GetStockData call
\* returns at least one price and no call ends in the service's "no price
\* data" error.
C38_ClientNeverEmpty ==
    /\ \A http \in HttpPool :
           /\ (http.transport \/ http.status # 200 \/ ~http.decodes \/ DOMAIN http.ts = {})
                  => ClientGetStockData(http).err # NoErr
           /\ ClientGetStockData(http).err = NoErr
                  => DOMAIN ClientGetStockData(http).ts # {}
    /\ \A c \in Callers :
           /\ FetchedOk(c) => DatesOf(c) # {}
           /\ (nDays >= 1 /\ pc[c] = "done" /\ res[c].status = "ok")
                  => Len(res[c].data.Prices) >= 1
           /\ (nDays >= 1 /\ pc[c] = "done" /\ res[c].status = "err")
                  => res[c].err.kind # "nodata"

\* with a day count of 2, the provider has answered 200 with a payload that
\* has no time series and the call has ended in the client's error
C38_Witness ==
    \E c \in Callers :
        /\ nDays = 2
        /\ pc[c] = "done"
        /\ obs[c].fetches = 1
        /\ obs[c].out.err = UpstreamErr("no data returned from Alpha Vantage")
        /\ res[c].status = "err"
        /\ res[c].err = obs[c].out.err
        /\ Symbol \notin DOMAIN items

====
